---------------------------- MODULE Spec2Model ----------------------------
(***************************************************************************)
(* A model of sifts (src/src/sifts/core.py): collections of documents kept *)
(* in one `documents` table of a relational store, with a lexical index    *)
(* (SQLite: the FTS5 table documents_fts; PostgreSQL: the tsvector column) *)
(* and the constructor, the operations add, update, delete, delete_all,    *)
(* count, query and get, and the QueryParser.                              *)
(*                                                                         *)
(* Representation.                                                         *)
(*   - a string on which the code works character by character (an id, a   *)
(*     query token, an order_by field) is a sequence of one-character      *)
(*     strings, <<"0","1">> for "01";                                      *)
(*   - a text (a document content, a query string) is the sequence of its  *)
(*     whitespace-separated tokens; the empty sequence is the empty        *)
(*     string (texts of whitespace only are not represented);              *)
(*   - Python's None, and SQL's NULL, are records with null |-> TRUE;      *)
(*   - a metadata mapping is a set of <<key, value>> pairs with one pair   *)
(*     per key; keys and values are strings, as add's signature declares   *)
(*     them (dict[str, str]), values of one character;                     *)
(*   - a table is a set of rows (documents) or a bag of rows               *)
(*     (documents_fts, which has no key), since SQL fixes no row order.    *)
(*   - an embedding is a vector of three components 1 or -1, as in        *)
(*     test_vector_query; these vectors have the same norm, so the cosine  *)
(*     similarity of two of them is their scalar product over 3 and a      *)
(*     similarity is kept as this product, in thirds.                      *)
(***************************************************************************)
EXTENDS Integers, Sequences, FiniteSets, TLC

VARIABLES
    backend,        \* "sqlite" | "postgresql": the store the handles share
    opened,         \* the collection handles constructed on the store
    fts_table,      \* SQLite: the virtual table documents_fts exists
    documents,      \* the rows of table documents
    documents_fts,  \* SQLite: the rows of documents_fts, a bag
    uuid_count,     \* how many ids make_id has minted
    ret,            \* the last call: the operation, the handle and the outcome
    scope           \* the callers that run their operations statement by
                    \* statement: for each its connection, its place in the
                    \* operation and its uncommitted writes

vars == <<backend, opened, fts_table, documents, documents_fts, uuid_count, ret, scope>>

---------------------------------------------------------------------------
(* Bounds of the model.                                                    *)

\* make_id is called at most this many times in a behaviour
MaxUuid == 1
\* the documents table holds at most this many rows
MaxDocs == 2
\* the largest limit a query is given
MaxLimit == 2
\* the largest offset a query is given
MaxOffset == 2

---------------------------------------------------------------------------
(* Characters and strings.                                                 *)

DigitChars == <<"0", "1", "2", "3", "4", "5", "6", "7", "8", "9">>

LowerLetters == <<"a", "b", "c", "d", "e", "f", "g", "h", "i", "j", "k", "l", "m",
                  "n", "o", "p", "q", "r", "s", "t", "u", "v", "w", "x", "y", "z">>

UpperLetters == <<"A", "B", "C", "D", "E", "F", "G", "H", "I", "J", "K", "L", "M",
                  "N", "O", "P", "Q", "R", "S", "T", "U", "V", "W", "X", "Y", "Z">>

Range(s) == {s[i] : i \in DOMAIN s}

Digits == Range(DigitChars)
Uppers == Range(UpperLetters)
Lowers == Range(LowerLetters)

\* \w of Python's re, on the characters of the model
WordChars == Digits \cup Lowers \cup Uppers \cup {"_"}

\* the place of a digit or letter in its list
DigitIndex == [c \in Digits |-> CHOOSE i \in DOMAIN DigitChars : DigitChars[i] = c]
UpperIndex == [c \in Uppers |-> CHOOSE i \in DOMAIN UpperLetters : UpperLetters[i] = c]
LowerIndex == [c \in Lowers |-> CHOOSE i \in DOMAIN LowerLetters : LowerLetters[i] = c]

IsDigit(c) == c \in Digits

IsWordChar(c) == c \in WordChars

\* str.lower, one character
LowerChar(c) == IF c \in Uppers THEN LowerLetters[UpperIndex[c]] ELSE c

\* str.lower
Lower(s) == [i \in DOMAIN s |-> LowerChar(s[i])]

\* the order of one-character strings in a comparison (their code points)
CharOrd(c) ==
    IF c \in Digits THEN 47 + DigitIndex[c]
    ELSE IF c \in Uppers THEN 64 + UpperIndex[c]
    ELSE IF c \in Lowers THEN 96 + LowerIndex[c]
    ELSE 0

\* s[i..], s[..j]
Drop(s, n) == SubSeq(s, n + 1, Len(s))
Take(s, n) == SubSeq(s, 1, n)

IsPrefix(p, s) == Len(p) <= Len(s) /\ Take(s, Len(p)) = p

---------------------------------------------------------------------------
(* SQLite's column affinity. temp_ids is declared (id INTEGER): a text     *)
(* that is a well-formed integer literal is stored as that integer, and    *)
(* in `documents_fts.id IN (SELECT id FROM temp_ids)` the left operand, a  *)
(* column with no affinity, is converted the same way before comparing.    *)
(* Of the numeric literals only the unsigned decimal ones are modelled.    *)

IsIntegerLiteral(s) == Len(s) > 0 /\ \A i \in DOMAIN s : IsDigit(s[i])

RECURSIVE IntValue(_)
IntValue(s) ==
    IF Len(s) = 0 THEN 0
    ELSE 10 * IntValue(Take(s, Len(s) - 1)) + (DigitIndex[s[Len(s)]] - 1)

IntegerAffinity(s) ==
    IF IsIntegerLiteral(s)
    THEN [type |-> "integer", int |-> IntValue(s), text |-> <<>>]
    ELSE [type |-> "text", int |-> 0, text |-> s]

---------------------------------------------------------------------------
(* QueryParser.                                                            *)

\* re.sub(r"\band\b", a, s, flags=IGNORECASE) then the same for "or" with o,
\* on one token s read from position i: a match is a whole run of word
\* characters, since \b stands on both of its sides
RECURSIVE SubWholeWord(_, _, _, _)
SubWholeWord(s, word, repl, i) ==
    IF i > Len(s) THEN <<>>
    ELSE IF /\ i + Len(word) - 1 <= Len(s)
            /\ Lower(SubSeq(s, i, i + Len(word) - 1)) = word
            /\ (i = 1 \/ ~IsWordChar(s[i - 1]))
            /\ (i + Len(word) > Len(s) \/ ~IsWordChar(s[i + Len(word)]))
         THEN repl \o SubWholeWord(s, word, repl, i + Len(word))
         ELSE <<s[i]>> \o SubWholeWord(s, word, repl, i + 1)

SubAndOr(tok, a, o) == SubWholeWord(SubWholeWord(tok, <<"a", "n", "d">>, a, 1), <<"o", "r">>, o, 1)

\* re.sub(r"\b(\w+)\*(?=\s|$|[^\w])", r"\1:*", s) on one token: a "*" that
\* follows a word character and is followed by the end or a non-word
\* character gets ":" before it
RECURSIVE SubStar(_, _)
SubStar(s, i) ==
    IF i > Len(s) THEN <<>>
    ELSE IF /\ s[i] = "*"
            /\ i > 1 /\ IsWordChar(s[i - 1])
            /\ (i = Len(s) \/ ~IsWordChar(s[i + 1]))
         THEN <<":", "*">> \o SubStar(s, i + 1)
         ELSE <<s[i]>> \o SubStar(s, i + 1)

_to_sqlite(query) ==
    [i \in DOMAIN query |-> SubAndOr(query[i], <<"A", "N", "D">>, <<"O", "R">>)]

operators == {<<"&">>, <<"|">>, <<"a", "n", "d">>, <<"o", "r">>}

\* a loop that appends the words and nothing else
words_only(words, i) == words

\* the while loop of _to_pg, from word i on
RECURSIVE query_list(_, _)
query_list(words, i) ==
    IF i > Len(words) THEN <<>>
    ELSE IF Lower(words[i]) \in operators
         THEN <<words[i]>> \o query_list(words, i + 1)
         ELSE IF i + 1 <= Len(words) /\ Lower(words[i + 1]) \notin operators
              THEN <<words[i], <<"&">>>> \o query_list(words, i + 1)
              ELSE <<words[i]>> \o query_list(words, i + 1)

_to_pg(query) ==
    LET joined == query_list(query, 1)
    IN  [i \in DOMAIN joined |-> SubStar(SubAndOr(joined[i], <<"&">>, <<"|">>), 1)]

\* str(QueryParser(query, backend))
QueryParser(query, be) == IF be = "sqlite" THEN _to_sqlite(query) ELSE _to_pg(query)

---------------------------------------------------------------------------
(* The lexical search engines, as QUERY_SEARCH uses them: FTS5's MATCH and *)
(* to_tsquery('simple', ..) @@ tsvector. Both lower-case the tokens of a   *)
(* content and the terms of a query. A query is a disjunction (OR, |) of   *)
(* conjunctions (AND or juxtaposition; &) of terms; a term is a bare word, *)
(* or a bare word followed by the prefix mark. Contents are made of bare   *)
(* words, and no query holds the negation (NOT, !).                        *)

IsBareWord(tok) == Len(tok) > 0 /\ \A i \in DOMAIN tok : IsWordChar(tok[i])

\* the stem of a prefix term, <<>> when tok does not end in mark
PrefixStem(tok, mark) ==
    IF Len(tok) > Len(mark) /\ Drop(tok, Len(tok) - Len(mark)) = mark
    THEN Take(tok, Len(tok) - Len(mark))
    ELSE <<>>

IsTerm(tok, ops, mark) ==
    /\ tok \notin ops
    /\ IsBareWord(tok) \/ IsBareWord(PrefixStem(tok, mark))

\* the query text is well formed: terms with one operator, or (when the
\* dialect has the implicit conjunction) nothing, between two of them
WellFormed(q, ops, mark, implicit) ==
    /\ Len(q) > 0
    /\ \A i \in DOMAIN q : q[i] \in ops \/ IsTerm(q[i], ops, mark)
    /\ q[1] \notin ops /\ q[Len(q)] \notin ops
    /\ \A i \in 1..(Len(q) - 1) :
          /\ ~(q[i] \in ops /\ q[i + 1] \in ops)
          /\ implicit \/ q[i] \in ops \/ q[i + 1] \in ops

TermMatches(tok, mark, lexemes) ==
    IF IsBareWord(tok)
    THEN Lower(tok) \in lexemes
    ELSE \E w \in lexemes : IsPrefix(Lower(PrefixStem(tok, mark)), w)

\* some maximal run i..j of q without the disjunction has all its terms in lexemes
Matches(q, ops, orTok, mark, lexemes) ==
    \E i \in DOMAIN q : \E j \in i..Len(q) :
        /\ i = 1 \/ q[i - 1] = orTok
        /\ j = Len(q) \/ q[j + 1] = orTok
        /\ \A k \in i..j : q[k] # orTok
        /\ \A k \in i..j : q[k] \in ops \/ TermMatches(q[k], mark, lexemes)

\* the tokens the engine indexes for a content
Lexemes(content) == {Lower(content[i]) : i \in DOMAIN content}

Fts5Ops == {<<"A", "N", "D">>, <<"O", "R">>}
Fts5WellFormed(q) == WellFormed(q, Fts5Ops, <<"*">>, TRUE)
Fts5Match(q, content) == Matches(q, Fts5Ops, <<"O", "R">>, <<"*">>, Lexemes(content))

TsqueryOps == {<<"&">>, <<"|">>}
TsqueryWellFormed(q) == WellFormed(q, TsqueryOps, <<":", "*">>, FALSE)
TsqueryMatch(q, lexemes) == Matches(q, TsqueryOps, <<"|">>, <<":", "*">>, lexemes)

---------------------------------------------------------------------------
(* Values.                                                                 *)

NoneId == [null |-> TRUE, str |-> <<>>]
SomeId(s) == [null |-> FALSE, str |-> s]

NoneMeta == [null |-> TRUE, map |-> {}]
SomeMeta(m) == [null |-> FALSE, map |-> m]

\* an absent argument (ids=None, metadatas=None) and a given list
NoneList == [null |-> TRUE, list |-> <<>>]
SomeList(l) == [null |-> FALSE, list |-> l]

\* the metadata column: NULL, or the JSON text of a mapping
NullJson == [null |-> TRUE, json |-> {}]
json_dumps(m) == [null |-> FALSE, json |-> m.map]
\* json.loads(match[3] or "null")
json_loads(j) == IF j.null THEN NoneMeta ELSE SomeMeta(j.json)

\* the tsvector column
NullTsvector == [null |-> TRUE, lexemes |-> {}]
to_tsvector(content) == [null |-> FALSE, lexemes |-> Lexemes(content)]

\* the embedding column: NULL, or the vector _format_vectors has written
\* (float32 bytes on SQLite, the text "[x,y,z]" with 8 decimals on
\* PostgreSQL; both keep components 1 and -1 as they are)
NullEmbedding == [null |-> TRUE, vec |-> <<>>]
_format_vectors(v) == [null |-> FALSE, vec |-> v]

\* the n-th id make_id mints (n = 0, 1, ..): the text of a UUID, which
\* holds hyphens and so is no numeric literal
make_id(n) == <<"u", "-", DigitChars[n + 1]>>

Min2(a, b) == IF a < b THEN a ELSE b

\* a bag of rows: a function from the rows it holds to their multiplicity
EmptyBag == [e \in {} |-> 0]
BagAdd(b, e) ==
    [x \in DOMAIN b \cup {e} |-> IF x \in DOMAIN b THEN b[x] + (IF x = e THEN 1 ELSE 0) ELSE 1]
\* the bag without the rows of the set gone
BagWithout(b, gone) == [x \in DOMAIN b \ gone |-> b[x]]

---------------------------------------------------------------------------
(* add.                                                                    *)

\* Python's truth value of an id (i or make_id()) and of a mapping (if m)
IdIsFalsy(i) == i.null \/ i.str = <<>>
MetaIsFalsy(m) == m.null \/ m.map = {}

NumFalsy(list, i) == Cardinality({j \in 1..i : IdIsFalsy(list[j])})

\* add, lines 147-150: the ids with every missing one minted
NormalizedIds(contents, ids, n) ==
    IF ids.null
    THEN [i \in 1..Len(contents) |-> make_id(n + i - 1)]
    ELSE [i \in DOMAIN ids.list |->
            IF IdIsFalsy(ids.list[i])
            THEN make_id(n + NumFalsy(ids.list, i) - 1)
            ELSE ids.list[i].str]

\* how many ids add mints
NumMinted(contents, ids) ==
    IF ids.null THEN Len(contents) ELSE NumFalsy(ids.list, Len(ids.list))

\* add, lines 151-154
NormalizedMetadatas(contents, metadatas) ==
    IF metadatas.null
    THEN [i \in 1..Len(contents) |-> NullJson]
    ELSE [i \in DOMAIN metadatas.list |->
            IF MetaIsFalsy(metadatas.list[i]) THEN NullJson ELSE json_dumps(metadatas.list[i])]

\* list(zip(ids, metadatas, names, contents)), names being as long as contents
ZipRows(contents, ids, metadatas, name) ==
    [i \in 1..Min2(Len(ids), Min2(Len(metadatas), Len(contents))) |->
        [id |-> ids[i], content |-> contents[i], name |-> name,
         metadata |-> metadatas[i], tsvector |-> NullTsvector, embedding |-> NullEmbedding]]

\* a plain INSERT INTO documents, which keeps the row that has the id
InsertBeside(docs, row, set_tsvector, set_embedding) == docs \cup {row}

\* INSERT INTO documents .. ON CONFLICT(id) DO UPDATE SET .., one row: the
\* row that has the id keeps the columns the statement does not set (the
\* tsvector, the embedding)
Upsert(docs, row, set_tsvector, set_embedding) ==
    IF \E d \in docs : d.id = row.id
    THEN LET old == CHOOSE d \in docs : d.id = row.id
         IN  {d \in docs : d.id # row.id}
                \cup {[row EXCEPT !.tsvector = IF set_tsvector THEN @ ELSE old.tsvector,
                                   !.embedding = IF set_embedding THEN @ ELSE old.embedding]}
    ELSE docs \cup {row}

\* executemany: the rows one after the other, from row i on
RECURSIVE UpsertAll(_, _, _, _, _)
UpsertAll(docs, rows, i, set_tsvector, set_embedding) ==
    IF i > Len(rows) THEN docs
    ELSE UpsertAll(Upsert(docs, rows[i], set_tsvector, set_embedding), rows, i + 1,
                   set_tsvector, set_embedding)

\* the embedding function of the handles that have one: the vector of a
\* text, here one per first word
embedding_function(text) ==
    IF text = <<>> THEN <<-1, -1, -1>>
    ELSE CASE Lower(text[1]) = <<"l", "o", "r", "e", "m">> -> <<1, 1, 1>>
           [] Lower(text[1]) = <<"i", "p", "s", "u", "m">> -> <<1, -1, 1>>
           [] Lower(text[1]) = <<"a", "m", "e", "t">> -> <<-1, -1, 1>>
           [] OTHER -> <<-1, -1, -1>>

\* executemany("UPDATE documents SET embedding = ? WHERE id = ?"), from
\* pair i on
RECURSIVE UpdateEmbeddings(_, _, _, _)
UpdateEmbeddings(docs, contents, ids, i) ==
    IF i > Min2(Len(contents), Len(ids)) THEN docs
    ELSE UpdateEmbeddings(
            {IF d.id = ids[i]
             THEN [d EXCEPT !.embedding = _format_vectors(embedding_function(contents[i]))]
             ELSE d : d \in docs},
            contents, ids, i + 1)

\* an add that does not delete the index entries of its ids
KeepIndexOfBatch(fts, ids) == fts

\* DELETE FROM documents_fts WHERE id IN (SELECT id FROM temp_ids)
DeleteIndexOfBatch(fts, ids) ==
    LET temp_ids == {IntegerAffinity(ids[i]) : i \in DOMAIN ids}
    IN  BagWithout(fts, {f \in DOMAIN fts : IntegerAffinity(f.id) \in temp_ids})

\* an add that leaves the index as it is
KeepIndex(fts, contents, ids, i) == fts

\* executemany(QUERY_INSERT_INDEX, list(zip(contents, ids))), from pair i on
RECURSIVE InsertIndex(_, _, _, _)
InsertIndex(fts, contents, ids, i) ==
    IF i > Min2(Len(contents), Len(ids)) THEN fts
    ELSE InsertIndex(BagAdd(fts, [id |-> ids[i], content |-> contents[i]]), contents, ids, i + 1)

\* CollectionSQLite._add: the exception it raises and the store after it
SQLite_add(st, h, contents, ids, metadatas) ==
    [exc |-> "None",
     store |-> [st EXCEPT
        !.documents =
            LET rows == UpsertAll(@, ZipRows(contents, ids, metadatas, h.name), 1, FALSE, FALSE)
            IN  IF h.embedding_function
                THEN UpdateEmbeddings(rows, contents, ids, 1)
                ELSE rows,
        !.documents_fts =
            IF h.use_fts
            THEN InsertIndex(DeleteIndexOfBatch(@, ids), contents, ids, 1)
            ELSE @]]

\* CollectionPostgreSQL._add: one INSERT .. ON CONFLICT DO UPDATE for the
\* whole batch, which PostgreSQL refuses (cardinality_violation) when two of
\* its rows have the same id. The statement sets the embedding when the
\* handle has an embedding function, and the tsvector unless the handle has
\* an embedding function and no full-text search.
PostgreSQL_add(st, h, contents, ids, metadatas) ==
    LET rows == ZipRows(contents, ids, metadatas, h.name)
        set_tsvector == ~h.embedding_function \/ h.use_fts
        set_embedding == h.embedding_function
        values == [i \in DOMAIN rows |->
                    [rows[i] EXCEPT
                        !.tsvector = IF set_tsvector THEN to_tsvector(rows[i].content) ELSE @,
                        !.embedding = IF set_embedding
                                      THEN _format_vectors(embedding_function(rows[i].content))
                                      ELSE @]]
    IN  IF \E i, j \in DOMAIN rows : i # j /\ rows[i].id = rows[j].id
        THEN [exc |-> "ProgrammingError", store |-> st]
        ELSE [exc |-> "None",
              store |-> [st EXCEPT
                !.documents = UpsertAll(@, values, 1, set_tsvector, set_embedding)]]

_add(st, h, contents, ids, metadatas) ==
    IF st.backend = "sqlite"
    THEN SQLite_add(st, h, contents, ids, metadatas)
    ELSE PostgreSQL_add(st, h, contents, ids, metadatas)

\* CollectionBase.add on the store st when n ids have been minted: the
\* exception it raises, the ids it returns and the store after it
add(st, h, n, contents, ids, metadatas) ==
    LET nids == NormalizedIds(contents, ids, n)
        r == _add(st, h, contents, nids, NormalizedMetadatas(contents, metadatas))
    IN  [exc |-> r.exc, value |-> IF r.exc = "None" THEN nids ELSE <<>>, store |-> r.store]

\* CollectionBase.update on the store st when n ids have been minted
update(st, h, n, ids, contents, metadatas) ==
    IF ids.null \/ \E i \in DOMAIN ids.list : ids.list[i].null
    THEN [exc |-> "ValueError", value |-> <<>>, store |-> st]
    ELSE add(st, h, n, contents, ids, metadatas)

---------------------------------------------------------------------------
(* delete, delete_all, count.                                              *)

\* CollectionBase.delete: QUERY_DELETE_INDEX then QUERY_DELETE_DOC for every
\* id. On SQLite the first statement needs the table documents_fts; on
\* PostgreSQL it sets the tsvector of the row the second one deletes.
delete(st, ids) ==
    IF st.backend = "sqlite" /\ ~st.fts_table
    THEN [exc |-> "OperationalError", store |-> st]
    ELSE [exc |-> "None",
          store |-> [st EXCEPT
            !.documents = {d \in @ : d.id \notin Range(ids)},
            !.documents_fts = BagWithout(@, {f \in DOMAIN @ : f.id \in Range(ids)})]]

\* a DELETE without the WHERE on the collection name
truncate(st, h) ==
    [exc |-> "None", store |-> [st EXCEPT !.documents = {}, !.documents_fts = <<>>]]

\* CollectionBase.delete_all
delete_all(st, h) ==
    [exc |-> "None",
     store |-> [st EXCEPT
        !.documents = {d \in @ : d.name # h.name},
        !.documents_fts =
            IF h.use_fts /\ st.backend = "sqlite"
            THEN BagWithout(@, {f \in DOMAIN @ :
                    f.id \in {d.id : d \in {x \in st.documents : x.name = h.name}}})
            ELSE @]]

\* a count of the rows of all collections
count_rows(st, h) == Cardinality(st.documents)

\* CollectionBase.count
count(st, h) == Cardinality({d \in st.documents : d.name = h.name})

---------------------------------------------------------------------------
(* query: the where conditions.                                            *)
(* where is the sequence of the mapping's items; an item's value is a      *)
(* string (is_dict FALSE, value) or a mapping (is_dict TRUE, ops: the set  *)
(* of its items [op, args], args the list given for $in and $nin and the   *)
(* one value of any other key). The values are strings.                    *)

RecognizedOps == {"$in", "$nin", "$gt", "$lt", "$gte", "$lte", "$eq"}

\* lines 231-240: the mapping shares no key with the recognized operators
InvalidWhere(where) ==
    \E i \in DOMAIN where :
        where[i].is_dict /\ {o.op : o \in where[i].ops} \cap RecognizedOps = {}

SqlNull == [null |-> TRUE, v |-> ""]

\* json_extract(doc.metadata, "$.key") and metadata->>'key'
Extract(json, key) ==
    IF json.null \/ ~(\E p \in json.json : p[1] = key)
    THEN SqlNull
    ELSE [null |-> FALSE, v |-> (CHOOSE p \in json.json : p[1] = key)[2]]

\* the dict ops of lines 263-269 with SQL's comparison of two texts
Compare(x, op, y) ==
    CASE op = "$gt" -> CharOrd(x) > CharOrd(y)
      [] op = "$lt" -> CharOrd(x) < CharOrd(y)
      [] op = "$gte" -> CharOrd(x) >= CharOrd(y)
      [] op = "$lte" -> CharOrd(x) <= CharOrd(y)
      [] op = "$eq" -> x = y
      [] OTHER -> TRUE

\* the predicates lines 241-300 append for one item, on a metadata column;
\* a comparison with NULL is not true, but SQLite's NOT IN () with no
\* element is true of every row
ItemHolds(item, json) ==
    LET x == Extract(json, item.key)
    IN  IF ~item.is_dict
        THEN ~x.null /\ x.v = item.value
        ELSE \A o \in item.ops :
                CASE o.op = "$in" -> ~x.null /\ x.v \in Range(o.args)
                  [] o.op = "$nin" -> o.args = <<>> \/ (~x.null /\ x.v \notin Range(o.args))
                  [] o.op \in {"$gt", "$lt", "$gte", "$lte", "$eq"} ->
                        ~x.null /\ Compare(x.v, o.op, o.args[1])
                  [] OTHER -> TRUE

WhereHolds(where, json) == \A i \in DOMAIN where : ItemHolds(where[i], json)

---------------------------------------------------------------------------
(* query: ORDER BY.                                                        *)
(* order_by is the sequence of the fields (a single string is the list of  *)
(* that string, lines 304-305).                                            *)

\* every field taken as ascending
ascending_only(field) == FALSE

\* field.startswith("-")
descending(field) == Len(field) > 0 /\ field[1] = "-"

\* field.lstrip("+-")
RECURSIVE lstrip(_)
lstrip(field) ==
    IF Len(field) > 0 /\ field[1] \in {"+", "-"} THEN lstrip(Drop(field, 1)) ELSE field

\* x sorts before y under DESC NULLS FIRST (desc) or ASC NULLS LAST
TermBefore(x, y, desc) ==
    IF desc
    THEN (x.null /\ ~y.null) \/ (~x.null /\ ~y.null /\ CharOrd(x.v) > CharOrd(y.v))
    ELSE (~x.null /\ y.null) \/ (~x.null /\ ~y.null /\ CharOrd(x.v) < CharOrd(y.v))

\* row a sorts before row b under the ORDER BY terms from term i on
RECURSIVE RowBefore(_, _, _, _)
RowBefore(a, b, order_by, i) ==
    IF i > Len(order_by) THEN FALSE
    ELSE LET x == Extract(a.metadata, lstrip(order_by[i]))
             y == Extract(b.metadata, lstrip(order_by[i]))
         IN  \/ TermBefore(x, y, descending(order_by[i]))
             \/ x = y /\ RowBefore(a, b, order_by, i + 1)

\* the orders in which the backend may return the rows: every order the
\* ORDER BY allows, and any order when there is none
Orderings(rows, order_by) ==
    LET n == Cardinality(rows)
    IN  {s \in [1..n -> rows] :
            /\ \A i, j \in 1..n : i # j => s[i] # s[j]
            /\ \A i, j \in 1..n : i < j => ~RowBefore(s[j], s[i], order_by, 1)}

---------------------------------------------------------------------------
(* query.                                                                  *)

\* an exception that is swallowed: the caller gets the empty envelope
Swallow(exc) == [exc |-> "None", total |-> 0, results |-> <<>>]

\* the exception exc reaches the caller
Raise(exc) == [exc |-> exc, total |-> 0, results |-> <<>>]

\* the rows QUERY_SEARCH (with_match) or QUERY_GET selects for the
\* collection on SQLite: the join of documents_fts and documents, a row
\* for every copy of an index entry
SQLiteRows(st, h, parsed, with_match, where) ==
    UNION {
        {[id |-> d.id, content |-> f.content, metadata |-> d.metadata, rank |-> with_match, copy |-> k] :
            k \in 1..st.documents_fts[f],
            d \in {x \in st.documents :
                    /\ x.id = f.id
                    /\ with_match => Fts5Match(parsed, f.content)
                    /\ x.name = h.name
                    /\ WhereHolds(where, x.metadata)}} :
        f \in DOMAIN st.documents_fts}

\* the same on PostgreSQL
PostgreSQLRows(st, h, parsed, with_match, where) ==
    {[id |-> d.id, content |-> d.content, metadata |-> d.metadata, rank |-> with_match, copy |-> 1] :
        d \in {x \in st.documents :
            /\ with_match => ~x.tsvector.null /\ TsqueryMatch(parsed, x.tsvector.lexemes)
            /\ x.name = h.name
            /\ WhereHolds(where, x.metadata)}}

\* LIMIT and OFFSET on the rows in the order the backend returns them
Page(full, limit, offset) ==
    SubSeq(full, offset + 1, IF limit > 0 THEN Min2(offset + limit, Len(full)) ELSE Len(full))

\* lines 346-358: the row as the caller gets it; rank tells whether the
\* result has the key "rank"
View(row) ==
    [id |-> row.id, content |-> row.content, metadata |-> json_loads(row.metadata), rank |-> row.rank]

\* lines 335-364: the envelope for the rows the statement returns
Envelope(full, limit, offset) ==
    LET result == Page(full, limit, offset)
    IN  [exc |-> "None",
         total |-> IF Len(result) = 0 THEN 0 ELSE Len(full),
         results |-> [i \in DOMAIN result |-> View(result[i])]]

\* a $in or $nin of the where has no element, which gives IN ()
EmptyInList(where) ==
    \E i \in DOMAIN where :
        where[i].is_dict /\ \E o \in where[i].ops : o.op \in {"$in", "$nin"} /\ o.args = <<>>

\* the statement fails in the backend: documents_fts is missing, the MATCH
\* text is malformed, OFFSET stands without LIMIT (SQLite, all three
\* sqlite3.OperationalError); the tsquery text is malformed or the
\* statement has an IN () (PostgreSQL, psycopg2.errors.SyntaxError)
StatementError(st, parsed, with_match, where, limit, offset) ==
    IF st.backend = "sqlite"
    THEN IF \/ ~st.fts_table
            \/ with_match /\ ~Fts5WellFormed(parsed)
            \/ limit = 0 /\ offset > 0
         THEN "OperationalError" ELSE "None"
    ELSE IF (with_match /\ ~TsqueryWellFormed(parsed)) \/ EmptyInList(where)
         THEN "ProgrammingError" ELSE "None"

\* the scalar product of two embeddings: their cosine similarity, in thirds
Dot(a, b) == a[1] * b[1] + a[2] * b[2] + a[3] * b[3]

\* the similarity of a row to the vector of the query; NULL when the row
\* has no embedding (PostgreSQL: 1 - (embedding <=> vector))
NullSimilarity == [null |-> TRUE, thirds |-> 0]
Similarity(row, vector) ==
    IF row.embedding.null THEN NullSimilarity
    ELSE [null |-> FALSE, thirds |-> Dot(vector, row.embedding.vec)]

\* QUERY_VECTOR_SEARCH with the filters: the rows of the collection that
\* satisfy the where, whatever their content
VectorRows(st, h, where) ==
    {d \in st.documents : d.name = h.name /\ WhereHolds(where, d.metadata)}

\* the result of a vector search as the caller gets it: the key "rank"
\* holds the similarity
VectorView(row, vector) ==
    [id |-> row.id, content |-> row.content, metadata |-> json_loads(row.metadata),
     rank |-> TRUE, similarity |-> Similarity(row, vector)]

\* the orders by falling similarity, rows without embedding last (ORDER BY
\* embedding <=> vector; np.argsort(-similarities)); rows of the same
\* similarity in any order
SimilarityOrderings(rows, vector) ==
    LET n == Cardinality(rows)
        before(a, b) ==
            LET x == Similarity(a, vector)
                y == Similarity(b, vector)
            IN  (~x.null /\ y.null) \/ (~x.null /\ ~y.null /\ x.thirds > y.thirds)
    IN  {s \in [1..n -> rows] :
            /\ \A i, j \in 1..n : i # j => s[i] # s[j]
            /\ \A i, j \in 1..n : i < j => ~before(s[j], s[i])}

\* CollectionSQLite._order_result on the rows of the statement: numpy
\* refuses the norm along axis 1 of an empty array and the buffer of a NULL
\* embedding; else the results by falling similarity, result[offset:] and
\* then result[:limit], the total being the number of rows
_order_result(rows, vector, limit, offset) ==
    IF rows = {} THEN {Raise("AxisError")}
    ELSE IF \E d \in rows : d.embedding.null THEN {Raise("TypeError")}
    ELSE {[exc |-> "None",
           total |-> Cardinality(rows),
           results |-> LET result == Page(full, limit, offset)
                       IN  [i \in DOMAIN result |-> VectorView(result[i], vector)]] :
            full \in SimilarityOrderings(rows, vector)}

\* query with vector_search, lines 206-364. Without a query string the
\* local variable vector is never assigned: PostgreSQL reads it at line
\* 321, before the statement, SQLite at line 363, after it.
vector_query(st, h, query_string, limit, offset, where) ==
    LET vector == embedding_function(query_string)
        rows == VectorRows(st, h, where)
    IN  IF st.backend = "sqlite"
        THEN IF query_string = <<>>
             THEN IF ~st.fts_table THEN {Raise("OperationalError")}
                  ELSE {Raise("UnboundLocalError")}
             ELSE _order_result(rows, vector, limit, offset)
        ELSE IF query_string = <<>> THEN {Raise("UnboundLocalError")}
             ELSE IF EmptyInList(where) THEN {Raise("ProgrammingError")}
             ELSE {LET result == Page(full, limit, offset)
                   IN  [exc |-> "None",
                        total |-> IF Len(result) = 0 THEN 0 ELSE Len(full),
                        results |-> [i \in DOMAIN result |-> VectorView(result[i], vector)]] :
                    full \in SimilarityOrderings(rows, vector)}

\* CollectionBase.query on the store st: the outcomes the call may have, an
\* envelope for each order the backend may return the rows in, or the
\* exception raised
query(st, h, query_string, limit, offset, where, order_by, vector_search) ==
    LET with_match == Len(query_string) > 0
        parsed == QueryParser(query_string, st.backend)
        error == StatementError(st, parsed, with_match, where, limit, offset)
        rows == IF st.backend = "sqlite"
                THEN SQLiteRows(st, h, parsed, with_match, where)
                ELSE PostgreSQLRows(st, h, parsed, with_match, where)
    IN  IF Len(order_by) > 0 /\ vector_search THEN {Raise("ValueError")}
        ELSE IF vector_search /\ ~h.embedding_function THEN {Raise("ValueError")}
        ELSE IF with_match /\ ~vector_search /\ ~h.use_fts THEN {Raise("ValueError")}
        ELSE IF InvalidWhere(where) THEN {Raise("ValueError")}
        ELSE IF vector_search THEN vector_query(st, h, query_string, limit, offset, where)
        ELSE IF error # "None" THEN {Raise(error)}
        ELSE {Envelope(full, limit, offset) : full \in Orderings(rows, order_by)}

\* CollectionBase.get
get(st, h, limit, offset, where, order_by) ==
    query(st, h, <<>>, limit, offset, where, order_by, FALSE)

---------------------------------------------------------------------------
(* The calls. A call that raises leaves the tables as they were: conn()    *)
(* commits only when the body returns (lines 446-455, 592-601). ret keeps  *)
(* the operation, the handle and what the caller gets (for query and get    *)
(* with the order_by asked for); for add also which                        *)
(* rows the batch met in the table (their id, collection and content), for *)
(* delete_all the ids of the rows it removed.                              *)

\* the database the handles share
Store ==
    [backend |-> backend, fts_table |-> fts_table,
     documents |-> documents, documents_fts |-> documents_fts]

Add(h, contents, ids, metadatas) ==
    LET minted == NumMinted(contents, ids)
        r == add(Store, h, uuid_count, contents, ids, metadatas)
    IN  /\ uuid_count + minted <= MaxUuid
        /\ Cardinality(r.store.documents) <= MaxDocs
        /\ documents' = r.store.documents
        /\ documents_fts' = r.store.documents_fts
        /\ uuid_count' = uuid_count + minted
        /\ ret' = [op |-> "add", h |-> h, exc |-> r.exc, value |-> r.value,
                   replaced |-> {[id |-> d.id, name |-> d.name, content |-> d.content] :
                                    d \in {x \in documents :
                                        x.id \in Range(NormalizedIds(contents, ids, uuid_count))}}]
        /\ UNCHANGED <<scope, backend, opened, fts_table>>

Update(h, ids, contents, metadatas) ==
    LET r == update(Store, h, uuid_count, ids, contents, metadatas)
        minted == IF r.exc = "ValueError" THEN 0 ELSE NumMinted(contents, ids)
    IN  /\ uuid_count + minted <= MaxUuid
        /\ Cardinality(r.store.documents) <= MaxDocs
        /\ documents' = r.store.documents
        /\ documents_fts' = r.store.documents_fts
        /\ uuid_count' = uuid_count + minted
        /\ ret' = [op |-> "update", h |-> h, exc |-> r.exc, value |-> r.value]
        /\ UNCHANGED <<scope, backend, opened, fts_table>>

Delete(h, ids) ==
    LET r == delete(Store, ids)
    IN  /\ documents' = r.store.documents
        /\ documents_fts' = r.store.documents_fts
        /\ ret' = [op |-> "delete", h |-> h, exc |-> r.exc]
        /\ UNCHANGED <<scope, backend, opened, fts_table, uuid_count>>

DeleteAll(h) ==
    LET r == delete_all(Store, h)
    IN  /\ documents' = r.store.documents
        /\ documents_fts' = r.store.documents_fts
        /\ ret' = [op |-> "delete_all", h |-> h, exc |-> r.exc,
                   removed |-> {d.id : d \in documents \ r.store.documents}]
        /\ UNCHANGED <<scope, backend, opened, fts_table, uuid_count>>

Count(h) ==
    /\ ret' = [op |-> "count", h |-> h, exc |-> "None", value |-> count(Store, h)]
    /\ UNCHANGED <<scope, backend, opened, fts_table, documents, documents_fts, uuid_count>>

Query(h, query_string, limit, offset, where, order_by, vector_search) ==
    /\ \E o \in query(Store, h, query_string, limit, offset, where, order_by, vector_search) :
          ret' = [op |-> "query", h |-> h, order_by |-> order_by,
                  exc |-> o.exc, total |-> o.total, results |-> o.results]
    /\ UNCHANGED <<scope, backend, opened, fts_table, documents, documents_fts, uuid_count>>

Get(h, limit, offset, where, order_by) ==
    /\ \E o \in get(Store, h, limit, offset, where, order_by) :
          ret' = [op |-> "get", h |-> h, order_by |-> order_by,
                  exc |-> o.exc, total |-> o.total, results |-> o.results]
    /\ UNCHANGED <<scope, backend, opened, fts_table, documents, documents_fts, uuid_count>>

---------------------------------------------------------------------------
(* The handles, and the state after their construction (create_tables).    *)

Backends == {"sqlite", "postgresql"}

Collection(name, use_fts) == [name |-> name, use_fts |-> use_fts, embedding_function |-> FALSE]

hA == Collection("A", TRUE)
hB == Collection("B", TRUE)
\* a handle on collection A made with use_fts=False
hN == Collection("A", FALSE)
\* handles on collection A made with an embedding function
hV == [hA EXCEPT !.embedding_function = TRUE]
hW == [hN EXCEPT !.embedding_function = TRUE]

\* _create_document_tables: SQLite makes documents_fts when use_fts is set
create_tables(handles) ==
    /\ backend \in Backends
    /\ opened = handles
    /\ fts_table = (backend = "sqlite" /\ \E h \in handles : h.use_fts)
    /\ documents = {}
    /\ documents_fts = EmptyBag
    /\ uuid_count = 0
    /\ ret = [op |-> "init"]

\* the handles constructed, their operations taken as single steps
InitStore(handles) == create_tables(handles) /\ scope = <<>>

---------------------------------------------------------------------------
(* The arguments of the calls.                                             *)

k1 == <<"k", "1">>
k2 == <<"k", "2">>

Lorem == <<"l", "o", "r", "e", "m">>
Ipsum == <<"i", "p", "s", "u", "m">>
Amet == <<"a", "m", "e", "t">>
Or == <<"o", "r">>

\* "1" and "01" are the same integer under SQLite's INTEGER affinity
Ids == {<<"1">>, <<"0", "1">>}

\* every id a document of the model may have
AllIds == Ids \cup {make_id(n) : n \in 0..(MaxUuid - 1)}

\* the documents added: a content with its metadata
Docs == {[content |-> <<Lorem, Ipsum>>, metadata |-> NoneMeta],
         [content |-> <<Ipsum, Amet>>, metadata |-> SomeMeta({<<k1, "a">>})],
         [content |-> <<Amet, Or>>, metadata |-> NoneMeta]}

IdLists == {NoneList, SomeList(<<NoneId>>)} \cup {SomeList(<<SomeId(i)>>) : i \in Ids}

\* add of one document
AddOneCalls ==
    {[contents |-> <<d.content>>, ids |-> i, metadatas |-> SomeList(<<d.metadata>>)] :
        d \in Docs, i \in IdLists}

\* add of a batch of two documents, with two ids or the same id twice
AddBatchCalls ==
    {[contents |-> <<<<Lorem, Ipsum>>, <<Amet, Or>>>>, ids |-> SomeList(<<SomeId(i), SomeId(j)>>),
      metadatas |-> NoneList] :
        i \in {<<"1">>}, j \in Ids}

AddCalls == AddOneCalls \cup AddBatchCalls

DeleteLists == {<<i>> : i \in AllIds} \cup {<<<<"1">>, <<"0", "1">>>>}

QueryStrings == {<<Lorem>>, <<Amet, Or>>}

\* the store of all collections: add, delete, delete_all, count and the
\* lexical query through every handle
Init == \E handles \in {{hA, hB}, {hA, hN}, {hN}} : InitStore(handles)

AddOne == \E h \in opened, c \in AddOneCalls : Add(h, c.contents, c.ids, c.metadatas)
AddBatch == \E h \in opened, c \in AddBatchCalls : Add(h, c.contents, c.ids, c.metadatas)
DeleteSome == \E h \in opened, ids \in DeleteLists : Delete(h, ids)
DeleteAllOf == \E h \in opened : DeleteAll(h)
CountOf == \E h \in opened : Count(h)
QueryText == \E h \in opened, q \in QueryStrings : Query(h, q, 0, 0, <<>>, <<>>, FALSE)
GetAll == \E h \in opened : Get(h, 0, 0, <<>>, <<>>)

Next == AddOne \/ AddBatch \/ DeleteSome \/ DeleteAllOf \/ CountOf \/ QueryText \/ GetAll

Spec == Init /\ [][Next]_vars

---------------------------------------------------------------------------
(* Properties of add, stated on every reachable store and every call: the  *)
(* outcome of the call and the store after it are those of add.            *)

\* the words of the contents that are no operator of the query language
PlainWords == {Lorem, Ipsum, Amet}

PairwiseDistinct(s) == \A i, j \in DOMAIN s : i # j => s[i] # s[j]

\* the lexical query for the one word w through h on the store st
WordQuery(st, h, w) == query(st, h, <<w>>, 0, 0, <<>>, <<>>, FALSE)

\* the ids the outcome o returns
ResultIds(o) == {o.results[k].id : k \in DOMAIN o.results}

TextQuery(st, h, c) == query(st, h, c, 0, 0, <<>>, <<>>, FALSE)

\* after ids = add([c]) through the FTS-enabled handle h, when the query for
\* c returned no other document before, query(c) returns total 1 and its one
\* result has the id ids[0]
AddThenQueryFinds(h, c) ==
    LET r == add(Store, h, uuid_count, c.contents, c.ids, c.metadatas)
        text == c.contents[1]
    IN  (/\ h.use_fts
         /\ \A o \in TextQuery(Store, h, text) : ResultIds(o) \subseteq {r.value[1]})
        => /\ r.exc = "None"
           /\ \A o \in TextQuery(r.store, h, text) :
                /\ o.exc = "None"
                /\ o.total = 1
                /\ Len(o.results) = 1
                /\ o.results[1].id = r.value[1]

---------------------------------------------------------------------------
(* Properties of the collections of one store.                             *)

\* what the caller of query, get and count through h sees of the store st
Observed(st, h) ==
    [count |-> count(st, h),
     get |-> get(st, h, 0, 0, <<>>, <<>>),
     query |-> IF h.use_fts THEN [q \in QueryStrings |-> TextQuery(st, h, q)] ELSE <<>>]

\* C5: for two collections A and B with different names on the same store,
\* an add on A whose ids are not ids of documents of B leaves what every
\* query, get and count on B returns as it was (and so does any sequence of
\* such adds).
\* Does not hold on SQLite: the id "01" of the batch, taken as an integer in
\* temp_ids, removes the index entry of the other collection's id "1".
C5_AddLeavesOtherCollection ==
    \A a, b \in opened, c \in AddCalls :
        LET nids == NormalizedIds(c.contents, c.ids, uuid_count)
            r == add(Store, a, uuid_count, c.contents, c.ids, c.metadatas)
        IN  (/\ a.name # b.name
             /\ \A d \in documents : d.name = b.name => d.id \notin Range(nids))
            => Observed(r.store, b) = Observed(Store, b)

OneRowPerId(docs) == \A d, e \in docs : d.id = e.id => d = e

\* C6: the documents table holds at most one row per id across all
\* collections; when collection B adds documents (pairwise distinct ids), for
\* every id of them that is tagged with collection A no second row is made,
\* the row is rewritten and tagged with B, A.count() decreases by the number
\* of these ids, B.count() increases by the number of ids that were not
\* tagged with B, and A's get and queries do not return these ids.
C6_OneRowPerId ==
    /\ OneRowPerId(documents)
    /\ \A a, b \in opened, c \in AddCalls :
        LET nids == NormalizedIds(c.contents, c.ids, uuid_count)
            r == add(Store, b, uuid_count, c.contents, c.ids, c.metadatas)
            taken == {d.id : d \in {x \in documents : x.name = a.name /\ x.id \in Range(nids)}}
            own == {d.id : d \in {x \in documents : x.name = b.name /\ x.id \in Range(nids)}}
        IN  (a.name # b.name /\ PairwiseDistinct(nids) /\ taken # {})
            => /\ r.exc = "None"
               /\ OneRowPerId(r.store.documents)
               /\ \A i \in DOMAIN nids :
                    \E d \in r.store.documents :
                        d.id = nids[i] /\ d.name = b.name /\ d.content = c.contents[i]
               /\ count(r.store, a) = count(Store, a) - Cardinality(taken)
               /\ count(r.store, b) = count(Store, b) + Cardinality(Range(nids) \ own)
               /\ \A o \in get(r.store, a, 0, 0, <<>>, <<>>) : ResultIds(o) \cap taken = {}
               /\ a.use_fts =>
                    \A w \in PlainWords :
                        \A o \in WordQuery(r.store, a, w) : ResultIds(o) \cap taken = {}

\* collection B has added a document under an id that was tagged with A: the
\* row is now B's, and A's get does not return it
C6_Witness ==
    /\ ret.op = "add" /\ ret.exc = "None" /\ ret.h.name = "B"
    /\ \E p \in ret.replaced :
        /\ p.name = "A"
        /\ \E d \in documents : d.id = p.id /\ d.name = "B"
        /\ Cardinality({d \in documents : d.id = p.id}) = 1
        /\ \A o \in get(Store, hA, 0, 0, <<>>, <<>>) : p.id \notin ResultIds(o)

\* the index entries (embedded backend) that have one of the ids
IndexOf(st, ids) == {f \in DOMAIN st.documents_fts : f.id \in ids}

\* C7: after delete(ids) the store has no document row and no lexical-index
\* entry for any id in ids and every other document and index entry is
\* unchanged; the call raises no error, also for ids that are absent, and
\* applied twice it leaves the same state as applied once.
\* Does not hold on a SQLite store without the table documents_fts, where
\* delete raises and removes nothing.
C7_DeleteRemoves ==
    \A h \in opened, ids \in DeleteLists :
        LET r == delete(Store, ids)
            others == AllIds \ Range(ids)
        IN  /\ r.exc = "None"
            /\ \A d \in r.store.documents : d.id \notin Range(ids)
            /\ IndexOf(r.store, Range(ids)) = {}
            /\ {d \in r.store.documents : d.id \in others} = {d \in documents : d.id \in others}
            /\ \A f \in IndexOf(Store, others) \cup IndexOf(r.store, others) :
                    /\ f \in DOMAIN r.store.documents_fts
                    /\ f \in DOMAIN documents_fts
                    /\ r.store.documents_fts[f] = documents_fts[f]
            /\ delete(r.store, ids) = r

\* C8: delete_all() on collection A removes every document tagged with A's
\* name (and, on the embedded backend with FTS enabled, their lexical-index
\* entries), so that A.count() == 0 afterwards, and leaves the documents and
\* the lexical-index entries of every other collection unchanged.
C8_DeleteAllScoped ==
    \A h \in opened :
        LET r == delete_all(Store, h)
            removed == {d.id : d \in {x \in documents : x.name = h.name}}
            others == AllIds \ removed
        IN  /\ r.exc = "None"
            /\ \A d \in r.store.documents : d.name # h.name
            /\ count(r.store, h) = 0
            /\ (backend = "sqlite" /\ h.use_fts) => IndexOf(r.store, removed) = {}
            /\ {d \in r.store.documents : d.name # h.name} = {d \in documents : d.name # h.name}
            /\ \A f \in IndexOf(Store, others) \cup IndexOf(r.store, others) :
                    /\ f \in DOMAIN r.store.documents_fts
                    /\ f \in DOMAIN documents_fts
                    /\ r.store.documents_fts[f] = documents_fts[f]

\* delete_all through an FTS-enabled handle has removed documents of its
\* collection while another collection keeps a document, which its query
\* for "lorem" still finds
C8_Witness ==
    /\ ret.op = "delete_all" /\ ret.exc = "None" /\ ret.h.use_fts /\ ret.removed # {}
    /\ count(Store, ret.h) = 0
    /\ \E b \in opened :
        /\ b.name # ret.h.name
        /\ count(Store, b) > 0
        /\ \A o \in WordQuery(Store, b, Lorem) : o.exc = "None" /\ o.total > 0

---------------------------------------------------------------------------
(* One collection queried with where, order_by, limit and offset.          *)

\* the documents added, each under its id
PagedAdds ==
    {[id |-> <<"1">>, content |-> <<Lorem>>, metadata |-> SomeMeta({<<k1, "a">>, <<k2, "b">>})],
     [id |-> <<"1">>, content |-> <<Lorem>>, metadata |-> SomeMeta({<<k1, "b">>, <<k2, "a">>})],
     [id |-> <<"2">>, content |-> <<Lorem>>, metadata |-> SomeMeta({<<k2, "a">>})],
     [id |-> <<"2">>, content |-> <<Ipsum>>, metadata |-> SomeMeta({<<k1, "a">>, <<k2, "a">>})],
     [id |-> <<"3">>, content |-> <<Lorem>>, metadata |-> NoneMeta],
     [id |-> <<"3">>, content |-> <<Lorem>>, metadata |-> SomeMeta({<<k1, "a">>, <<k2, "a">>})]}

\* where={"k1": "a"}
WhereEquals == <<[key |-> k1, is_dict |-> FALSE, value |-> "a", ops |-> {}]>>
\* where={"k2": {"$in": ["a"]}}
WhereIn ==
    <<[key |-> k2, is_dict |-> TRUE, value |-> "", ops |-> {[op |-> "$in", args |-> <<"a">>]}]>>
\* where={"k1": {"$in": ["a"], "foo": "x"}}
WhereInAndUnknown ==
    <<[key |-> k1, is_dict |-> TRUE, value |-> "",
       ops |-> {[op |-> "$in", args |-> <<"a">>], [op |-> "foo", args |-> <<"x">>]}]>>
\* where={"k1": {"foo": "x"}}
WhereUnknown ==
    <<[key |-> k1, is_dict |-> TRUE, value |-> "", ops |-> {[op |-> "foo", args |-> <<"x">>]}]>>

Wheres == {WhereEquals, WhereIn, WhereInAndUnknown, WhereUnknown}

OrderBys == {<<k1>>, <<<<"-">> \o k1>>, <<<<"+">> \o k1>>, <<k2, <<"-">> \o k1>>, <<<<"-">> \o k2, k1>>}

\* where and order_by of a call: neither, a where, or an order_by
Selections ==
    {[where |-> <<>>, order_by |-> <<>>]}
        \cup {[where |-> w, order_by |-> <<>>] : w \in Wheres}
        \cup {[where |-> <<>>, order_by |-> o] : o \in OrderBys}

Limits == 0..MaxLimit
Offsets == 0..MaxOffset

PagedTexts == {<<Lorem>>, <<Lorem, <<"O", "r">>, <<"a", "m", "*">>>>}

InitPaged == InitStore({hA})

AddDoc ==
    \E h \in opened, a \in PagedAdds :
        Add(h, <<a.content>>, SomeList(<<SomeId(a.id)>>), SomeList(<<a.metadata>>))
QueryPage ==
    \E h \in opened, q \in PagedTexts, s \in Selections, limit \in Limits, offset \in Offsets :
        Query(h, q, limit, offset, s.where, s.order_by, FALSE)
GetPage ==
    \E h \in opened, s \in Selections, limit \in Limits, offset \in Offsets :
        Get(h, limit, offset, s.where, s.order_by)

NextPaged == AddDoc \/ QueryPage \/ GetPage

SpecPaged == InitPaged /\ [][NextPaged]_vars

---------------------------------------------------------------------------
(* Properties of query and get on every reachable store and every call.    *)

\* the calls: get is the query with the empty text
PagedCalls ==
    [text : PagedTexts \cup {<<>>}, selection : Selections, limit : Limits, offset : Offsets]

\* the outcomes of the call c through h
Outcomes(h, c) ==
    query(Store, h, c.text, c.limit, c.offset, c.selection.where, c.selection.order_by, FALSE)

\* the call c without limit and offset
Unpaginated(c) == [c EXCEPT !.limit = 0, !.offset = 0]

\* C3: for every query or get call with any limit >= 0 and any offset >= 0
\* (also an offset at or beyond the number of matches), the total returned
\* is the number of documents of the collection that satisfy the text match
\* and the where conditions before pagination, which is the number of
\* results of the same call without limit and offset.
\* Does not hold: the total of an empty page is 0.
C3_TotalIsUnpaginatedCount ==
    \A h \in opened, c \in PagedCalls :
        \A o \in Outcomes(h, c), u \in Outcomes(h, Unpaginated(c)) :
            (o.exc = "None" /\ u.exc = "None") => o.total = Len(u.results)

\* C4: for every query with an order_by, limit L and offset O, on both
\* backends, results is the contiguous part of the full ordered match list
\* that starts at position O and has L elements (all remaining elements when
\* L == 0), so that len(results) == min(L, max(0, matches - O)) when L > 0 and
\* a call with L == 0 and O > 0 returns the matches from position O onward.
\* Does not hold on SQLite, which rejects OFFSET without LIMIT.
C4_ResultsAreTheSlice ==
    \A h \in opened, c \in PagedCalls :
        (/\ c.selection.order_by # <<>>
         /\ \A u \in Outcomes(h, Unpaginated(c)) : u.exc = "None")
        => \A o \in Outcomes(h, c) :
            /\ o.exc = "None"
            /\ \E u \in Outcomes(h, Unpaginated(c)) :
                LET n == Len(u.results)
                    last == IF c.limit = 0 THEN n ELSE Min2(c.offset + c.limit, n)
                IN  /\ o.results = SubSeq(u.results, c.offset + 1, last)
                    /\ c.limit > 0 =>
                        Len(o.results) = Min2(c.limit, IF n > c.offset THEN n - c.offset ELSE 0)

\* the field an order_by entry names, and whether it asks for descending
FieldName(f) == IF Len(f) > 0 /\ f[1] \in {"+", "-"} THEN Tail(f) ELSE f
IsDescending(f) == Len(f) > 0 /\ f[1] = "-"

\* the document of result x has a value for the field key
HasValue(x, key) == ~x.metadata.null /\ \E p \in x.metadata.map : p[1] = key
ValueOf(x, key) == (CHOOSE p \in x.metadata.map : p[1] = key)[2]

\* results x and y are alike in the field of f
SameInField(x, y, f) ==
    LET key == FieldName(f)
    IN  IF HasValue(x, key) /\ HasValue(y, key)
        THEN ValueOf(x, key) = ValueOf(y, key)
        ELSE ~HasValue(x, key) /\ ~HasValue(y, key)

\* x belongs before y by the field of f: ascending puts the smaller value
\* first and a document without the field last, descending the larger value
\* first and a document without the field first
FirstInField(x, y, f) ==
    LET key == FieldName(f)
    IN  IF IsDescending(f)
        THEN \/ ~HasValue(x, key) /\ HasValue(y, key)
             \/ HasValue(x, key) /\ HasValue(y, key)
                    /\ CharOrd(ValueOf(x, key)) > CharOrd(ValueOf(y, key))
        ELSE \/ HasValue(x, key) /\ ~HasValue(y, key)
             \/ HasValue(x, key) /\ HasValue(y, key)
                    /\ CharOrd(ValueOf(x, key)) < CharOrd(ValueOf(y, key))

\* x may stand before y in the lexicographic order of the fields from i on
RECURSIVE MayPrecede(_, _, _, _)
MayPrecede(x, y, fields, i) ==
    IF i > Len(fields) THEN TRUE
    ELSE \/ FirstInField(x, y, fields[i])
         \/ SameInField(x, y, fields[i]) /\ MayPrecede(x, y, fields, i + 1)

\* C9: query with order_by fields f1..fn returns the matches sorted
\* lexicographically by the metadata values of f1, then f2, .., each field
\* ascending unless it is prefixed with '-' ('+' means ascending); documents
\* that lack the field or have null metadata come last for an ascending
\* field and first for a descending one. Without limit and offset the
\* results are the matches the call without order_by returns.
C9_ResultsSorted ==
    \A h \in opened, c \in PagedCalls :
        c.selection.order_by # <<>> =>
            \A o \in Outcomes(h, c) :
                o.exc = "None" =>
                    /\ \A i, j \in DOMAIN o.results :
                            i < j => MayPrecede(o.results[i], o.results[j], c.selection.order_by, 1)
                    /\ (c.limit = 0 /\ c.offset = 0) =>
                            \A u \in Outcomes(h, [c EXCEPT !.selection.order_by = <<>>]) :
                                /\ Len(u.results) = Len(o.results)
                                /\ Range(u.results) = Range(o.results)

\* a query ordered by "-k1" has returned two documents, first the one with
\* null metadata, then one that has a value for k1
C9_Witness ==
    /\ ret.op = "query" /\ ret.exc = "None"
    /\ ret.order_by = <<<<"-">> \o k1>>
    /\ Len(ret.results) = 2
    /\ ret.results[1].metadata.null
    /\ HasValue(ret.results[2], k1)

\* the mapping of a where entry has a key that is no recognized operator
HasUnrecognizedKey(where) ==
    \E i \in DOMAIN where :
        where[i].is_dict /\ \E o \in where[i].ops : o.op \notin RecognizedOps

\* C10: query raises ValueError for every where entry whose value is a
\* mapping with any key outside $in, $nin, $gt, $lt, $gte, $lte, $eq, whether
\* or not the mapping also has recognized operators.
\* Does not hold: a mapping with a recognized operator passes, whatever
\* other keys it has.
C10_UnrecognizedKeyRaises ==
    \A h \in opened, c \in PagedCalls :
        HasUnrecognizedKey(c.selection.where) =>
            \A o \in Outcomes(h, c) : o.exc = "ValueError"

---------------------------------------------------------------------------
(* One collection queried with $in and $nin.                               *)

\* where={key: {"$in": S}}
WhereInList(key, S) ==
    <<[key |-> key, is_dict |-> TRUE, value |-> "", ops |-> {[op |-> "$in", args |-> S]}]>>
\* where={key: {"$nin": S}}
WhereNinList(key, S) ==
    <<[key |-> key, is_dict |-> TRUE, value |-> "", ops |-> {[op |-> "$nin", args |-> S]}]>>
\* where={"k1": {"$in": ["a", "b"], "$nin": ["a"]}}
WhereInAndNin ==
    <<[key |-> k1, is_dict |-> TRUE, value |-> "",
       ops |-> {[op |-> "$in", args |-> <<"a", "b">>], [op |-> "$nin", args |-> <<"a">>]}]>>
\* where={"k1": {"$in": ["a"]}, "k2": {"$nin": ["b"]}}
WhereTwoEntries == WhereInList(k1, <<"a">>) \o WhereNinList(k2, <<"b">>)

ValueLists == {<<>>, <<"a">>, <<"a", "b">>}

ListWheres ==
    {WhereInList(k1, S) : S \in ValueLists} \cup {WhereNinList(k1, S) : S \in ValueLists}
        \cup {WhereInAndNin, WhereTwoEntries}

WhereTexts == {<<Lorem>>}

InitWhere == InitStore({hA})

QueryWhere ==
    \E h \in opened, q \in WhereTexts, w \in ListWheres : Query(h, q, 0, 0, w, <<>>, FALSE)
GetWhere ==
    \E h \in opened, w \in ListWheres : Get(h, 0, 0, w, <<>>)

NextWhere == AddDoc \/ QueryWhere \/ GetWhere

SpecWhere == InitWhere /\ [][NextWhere]_vars

\* the result x has, for every entry of the where, a value under the key
\* that is an element of the $in list and not an element of the $nin list
InLists(x, where) ==
    \A i \in DOMAIN where : \A o \in where[i].ops :
        /\ HasValue(x, where[i].key)
        /\ o.op = "$in" => ValueOf(x, where[i].key) \in Range(o.args)
        /\ o.op = "$nin" => ValueOf(x, where[i].key) \notin Range(o.args)

\* the ids of the results of u that the where admits
Restricted(u, where) == {u.results[k].id : k \in {j \in DOMAIN u.results : InLists(u.results[j], where)}}

\* C11: a where {k: {"$in": S}} restricts a query or get to exactly the
\* matching documents whose metadata value for k is an element of S, and
\* {"$nin": S} to exactly those that have a value for k which is not an
\* element of S (a document with null metadata or without the key k is
\* returned by neither); the total counts the restricted set; several
\* entries, and several operators in one mapping, are combined by
\* conjunction.
\* Does not hold for a list without an element: SQLite's NOT IN () admits
\* the documents without a value, and PostgreSQL rejects IN ().
C11_InAndNinRestrict ==
    \A h \in opened, q \in WhereTexts \cup {<<>>}, w \in ListWheres :
        \A o \in query(Store, h, q, 0, 0, w, <<>>, FALSE),
           u \in query(Store, h, q, 0, 0, <<>>, <<>>, FALSE) :
            u.exc = "None" =>
                /\ o.exc = "None"
                /\ ResultIds(o) = Restricted(u, w)
                /\ o.total = Cardinality(Restricted(u, w))
                /\ Len(o.results) = o.total

---------------------------------------------------------------------------
(* Errors of the backend during query and get.                             *)

\* C12: a connection or operational error of the backend during query or
\* get (for instance a malformed full-text query text) does not raise: the
\* call returns {"total": 0, "results": []}; operational errors in add, update,
\* delete and delete_all propagate.
\* Does not hold: the except clause of query raises the error again before
\* its return statement.
C12_QueryErrorGivesEmpty ==
    \A h \in opened, q \in QueryStrings \cup {<<>>} :
        h.use_fts => \A o \in query(Store, h, q, 0, 0, <<>>, <<>>, FALSE) :
                        o.exc # "OperationalError"

---------------------------------------------------------------------------
(* One collection with handles that have an embedding function and handles *)
(* that have none, queried by text and by vector.                          *)

\* the documents added, each under its id; their embeddings differ
VectorAdds ==
    {[id |-> i, content |-> d.content, metadata |-> d.metadata] :
        i \in {<<"1">>, <<"2">>},
        d \in {[content |-> <<Ipsum>>, metadata |-> NoneMeta],
               [content |-> <<Amet>>, metadata |-> SomeMeta({<<k1, "a">>})]}}

\* the query strings: one closer to one content, one equally far from both
VectorTexts == {<<Amet>>, <<Or>>}

VectorWheres == {<<>>, WhereEquals}
VectorOrderBys == {<<>>, <<k1>>}

InitVector == \E handles \in {{hV, hA}, {hW, hN}} : InitStore(handles)

\* the calls of query: the vector searches with limit and offset, and the
\* calls with and without text, where, order_by and vector_search
VectorCalls ==
    [text : VectorTexts \cup {<<>>}, limit : Limits, offset : Offsets, where : {<<>>},
     order_by : {<<>>}, vector_search : {TRUE}]
    \cup [text : VectorTexts \cup {<<>>}, limit : {0}, offset : {0, 1}, where : VectorWheres,
          order_by : VectorOrderBys, vector_search : BOOLEAN]

AddVector ==
    \E h \in opened, a \in VectorAdds :
        Add(h, <<a.content>>, SomeList(<<SomeId(a.id)>>), SomeList(<<a.metadata>>))
QueryVector ==
    \E h \in opened, c \in VectorCalls :
        Query(h, c.text, c.limit, c.offset, c.where, c.order_by, c.vector_search)

NextVector == AddVector \/ QueryVector

SpecVector == InitVector /\ [][NextVector]_vars

\* the outcomes of the call c through h
VectorOutcomes(h, c) ==
    query(Store, h, c.text, c.limit, c.offset, c.where, c.order_by, c.vector_search)

\* C13: query raises ValueError, without executing a statement on the
\* backend and without changing the state, when vector_search is true and
\* the collection has no embedding function, when vector_search is true and
\* an order_by is given, and when query_string is not empty, vector_search
\* is false and the collection has full-text search disabled. The
\* ValueError is the outcome also of the calls whose statement the backend
\* would refuse.
C13_PreconditionsRaise ==
    \A h \in opened, c \in VectorCalls :
        (\/ c.vector_search /\ ~h.embedding_function
         \/ c.vector_search /\ c.order_by # <<>>
         \/ c.text # <<>> /\ ~c.vector_search /\ ~h.use_fts)
        => \A o \in VectorOutcomes(h, c) : o.exc = "ValueError" /\ o.results = <<>>

\* a query with an order_by through a handle that has full-text search and
\* an embedding function has raised ValueError on a store with documents:
\* the call was a vector search
C13_Witness ==
    /\ ret.op = "query" /\ ret.exc = "ValueError"
    /\ ret.h.use_fts /\ ret.h.embedding_function /\ ret.order_by # <<>>
    /\ \E d \in documents : d.name = ret.h.name

\* C16: add(contents=[c], ids=[x], metadatas=[m]) done twice leaves the
\* store (the row, the lexical-index entries of x, the embedding) as the
\* same call done once leaves it, on both backends.
C16_AddTwiceIsAddOnce ==
    \A h \in opened, a \in VectorAdds :
        LET once == add(Store, h, uuid_count, <<a.content>>, SomeList(<<SomeId(a.id)>>),
                        SomeList(<<a.metadata>>))
            twice == add(once.store, h, uuid_count, <<a.content>>, SomeList(<<SomeId(a.id)>>),
                         SomeList(<<a.metadata>>))
        IN  /\ once.exc = "None"
            /\ twice.exc = "None"
            /\ twice.value = once.value
            /\ twice.store = once.store

\* an add through a handle with an embedding function and full-text search
\* has met the document it writes, of the same content, in the table; the
\* document has its embedding
C16_Witness ==
    /\ ret.op = "add" /\ ret.exc = "None" /\ ret.h.embedding_function /\ ret.h.use_fts
    /\ \E d \in documents :
        /\ d.id \in Range(ret.value)
        /\ [id |-> d.id, name |-> d.name, content |-> d.content] \in ret.replaced
        /\ ~d.embedding.null

\* the vector searches among the calls
VectorSearches ==
    {c \in VectorCalls : c.vector_search /\ c.text # <<>> /\ c.order_by = <<>> /\ c.where = <<>>}

\* the cosine similarity of two texts under the embedding function, in thirds
CosineOf(text, content) ==
    LET a == embedding_function(text)
        b == embedding_function(content)
    IN  a[1] * b[1] + a[2] * b[2] + a[3] * b[3]

\* the number of elements of a list of n elements from position offset on,
\* at most limit of them when limit is positive
SliceLen(n, limit, offset) ==
    LET rest == IF n > offset THEN n - offset ELSE 0
    IN  IF limit > 0 /\ limit < rest THEN limit ELSE rest

\* the store as the other backend would hold its documents
OtherBackend ==
    [Store EXCEPT !.backend = IF backend = "sqlite" THEN "postgresql" ELSE "sqlite"]

\* C17: query(q, vector_search=True) returns the documents of the
\* collection by falling cosine similarity to q, the rank of each being its
\* similarity; the offset is applied before the limit; the total is the
\* number of candidates before pagination; both backends return the same
\* ids in the same order. Stated for a collection that has a document and
\* whose documents all have the embedding of their content.
\* Does not hold on PostgreSQL for an offset at or beyond the number of
\* candidates: the total is 0 there.
C17_VectorSearchRanks ==
    \A h \in opened, c \in VectorSearches :
        LET candidates == {d \in documents : d.name = h.name}
            n == Cardinality(candidates)
        IN  (/\ h.embedding_function
             /\ candidates # {}
             /\ \A d \in candidates :
                    d.embedding = _format_vectors(embedding_function(d.content)))
            => /\ \A o \in VectorOutcomes(h, c) :
                    /\ o.exc = "None"
                    /\ o.total = n
                    /\ Len(o.results) = SliceLen(n, c.limit, c.offset)
                    /\ \A k \in DOMAIN o.results :
                        /\ o.results[k].rank
                        /\ ~o.results[k].similarity.null
                        /\ o.results[k].similarity.thirds = CosineOf(c.text, o.results[k].content)
                        /\ \E d \in candidates : d.id = o.results[k].id
                    /\ \A i, j \in DOMAIN o.results :
                        i < j => /\ o.results[i].similarity.thirds >= o.results[j].similarity.thirds
                                 /\ o.results[i].id # o.results[j].id
                    /\ \E u \in VectorOutcomes(h, [c EXCEPT !.limit = 0, !.offset = 0]) :
                        /\ u.exc = "None"
                        /\ Len(u.results) = n
                        /\ \A k \in DOMAIN o.results : o.results[k] = u.results[c.offset + k]
               /\ {o.results : o \in VectorOutcomes(h, c)}
                    = {o.results : o \in query(OtherBackend, h, c.text, c.limit, c.offset,
                                                c.where, c.order_by, c.vector_search)}

\* the calls without a query string that pass the preconditions of query
\* and whose limit and offset SQLite accepts
PlainCalls(h) ==
    {c \in VectorCalls :
        /\ c.text = <<>>
        /\ c.vector_search => (h.embedding_function /\ c.order_by = <<>>)
        /\ c.offset = 0 \/ c.limit > 0}

\* the ids of the documents of the collection of h that satisfy the where
\* of the call, which is empty or {"k1": "a"}
Satisfying(h, c) ==
    {d.id : d \in {x \in documents :
        /\ x.name = h.name
        /\ c.where = <<>>
            \/ LET v == [metadata |-> json_loads(x.metadata)]
               IN  HasValue(v, k1) /\ ValueOf(v, k1) = "a"}}

\* C20: query with an empty query_string is the plain retrieval: it returns
\* every document of the collection that satisfies the where, ordered and
\* paginated as asked, and no result has a rank, for every combination of
\* the other arguments that passes the preconditions (vector_search=True on
\* a collection with an embedding function included); get(limit, offset,
\* where, order_by) returns the same envelope as query("", limit, offset,
\* where, order_by). Stated for handles with full-text search.
\* Does not hold with vector_search=True: query reads the vector of the
\* query string, which it has not computed, and raises.
C20_EmptyTextIsGet ==
    \A h \in opened :
        h.use_fts =>
            \A c \in PlainCalls(h) :
                /\ VectorOutcomes(h, c) = get(Store, h, c.limit, c.offset, c.where, c.order_by)
                /\ \A o \in VectorOutcomes(h, c) :
                    /\ o.exc = "None"
                    /\ \A k \in DOMAIN o.results : ~o.results[k].rank
                    /\ (c.limit = 0 /\ c.offset = 0) => ResultIds(o) = Satisfying(h, c)

---------------------------------------------------------------------------
(* One collection written by add and update, with ids that are None or     *)
(* empty and metadata that is None, empty or a mapping.                    *)

\* ids=None, [None], [""], ["1"], ["2"]
UpdateIds ==
    {NoneList, SomeList(<<NoneId>>), SomeList(<<SomeId(<<>>)>>),
     SomeList(<<SomeId(<<"1">>)>>), SomeList(<<SomeId(<<"2">>)>>)}

\* metadatas=None, [None], [{}], [{"k1": "a"}]
UpdateMetadatas ==
    {NoneList, SomeList(<<NoneMeta>>), SomeList(<<SomeMeta({})>>),
     SomeList(<<SomeMeta({<<k1, "a">>})>>)}

UpdateContents == {<<Lorem>>, <<Ipsum>>}

UpdateCalls == [ids : UpdateIds, content : UpdateContents, metadatas : UpdateMetadatas]

InitUpdate == InitStore({hA})

AddAny == \E h \in opened, c \in UpdateCalls : Add(h, <<c.content>>, c.ids, c.metadatas)
UpdateAny == \E h \in opened, c \in UpdateCalls : Update(h, c.ids, <<c.content>>, c.metadatas)
QueryAny == \E h \in opened : Query(h, <<Lorem>>, 0, 0, <<>>, <<>>, FALSE)
GetAny == \E h \in opened : Get(h, 0, 0, <<>>, <<>>)

NextUpdate == AddAny \/ UpdateAny \/ QueryAny \/ GetAny

SpecUpdate == InitUpdate /\ [][NextUpdate]_vars

\* the ids of the list as the caller wrote them
SuppliedIds(ids) == [i \in DOMAIN ids.list |-> ids.list[i].str]

\* C14: update(ids, contents, metadatas) raises ValueError and leaves the
\* store as it is when ids is None or has a None element; otherwise it has
\* exactly the effect of add(contents, ids, metadatas) and returns exactly
\* the ids supplied (none is replaced by a generated one), creating the
\* document when the id is absent.
\* Does not hold: an id "" passes the check of update, and add replaces it
\* by a generated id.
C14_UpdateIsAddWithIds ==
    \A h \in opened, c \in UpdateCalls :
        LET r == update(Store, h, uuid_count, c.ids, <<c.content>>, c.metadatas)
        IN  IF c.ids.null \/ \E i \in DOMAIN c.ids.list : c.ids.list[i].null
            THEN r.exc = "ValueError" /\ r.store = Store
            ELSE /\ r = add(Store, h, uuid_count, <<c.content>>, c.ids, c.metadatas)
                 /\ r.exc = "None"
                 /\ r.value = SuppliedIds(c.ids)
                 /\ \A i \in DOMAIN r.value :
                        \E d \in r.store.documents :
                            d.id = r.value[i] /\ d.name = h.name /\ d.content = c.content

\* the calls that give an id and a metadata element
MetadataCalls ==
    {c \in UpdateCalls : ~c.ids.null /\ ~IdIsFalsy(c.ids.list[1]) /\ ~c.metadatas.null}

\* C15: for every metadata m that is None or a mapping (the empty mapping
\* included), a document added with metadata m is returned by query and by
\* get with a metadata equal to m after the JSON round trip: None stays None
\* and a mapping stays a mapping.
\* Does not hold: add stores NULL for the empty mapping, which comes back as
\* None.
C15_MetadataRoundTrip ==
    \A h \in opened, c \in MetadataCalls :
        LET r == add(Store, h, uuid_count, <<c.content>>, c.ids, c.metadatas)
            m == c.metadatas.list[1]
        IN  r.exc = "None" =>
                \A o \in get(r.store, h, 0, 0, <<>>, <<>>)
                            \cup query(r.store, h, c.content, 0, 0, <<>>, <<>>, FALSE) :
                    /\ o.exc = "None"
                    /\ \E k \in DOMAIN o.results :
                        o.results[k].id = c.ids.list[1].str /\ o.results[k].metadata = m

---------------------------------------------------------------------------
(* Construction of a collection handle. Here the name of a handle is the   *)
(* sequence of its characters.                                             *)

\* at most this many handles are constructed in a behaviour
MaxHandles == 1

\* the class [-a-zA-Z0-9_\\+~#=/] of the raw string at line 96: in it the
\* two backslashes stand for the backslash itself
NameClass ==
    {"-"} \cup Lowers \cup Uppers \cup Digits \cup {"_", "\\", "+", "~", "#", "=", "/"}

\* CollectionBase.__init__, lines 94-97: the exception for the name
CheckName(name) ==
    IF name = <<>> THEN "ValueError"
    ELSE IF \A i \in DOMAIN name : name[i] \in NameClass THEN "None"
    ELSE "ValueError"

\* the constructor on the store st with the handles made so far: the
\* exception, the handles and whether documents_fts exists after it
\* (create_tables runs only for a name that passed)
CollectionBase(st, handles, name, use_fts) ==
    IF CheckName(name) # "None"
    THEN [exc |-> "ValueError", opened |-> handles, fts_table |-> st.fts_table]
    ELSE [exc |-> "None",
          opened |-> handles \cup {[name |-> name, use_fts |-> use_fts,
                                    embedding_function |-> FALSE]},
          fts_table |-> st.fts_table \/ (st.backend = "sqlite" /\ use_fts)]

\* the characters of the names tried and the names, of up to two characters
NameCharacters == {"a", "Z", "1", "-", "/", "\\", " ", "'"}
Names == {<<>>} \cup {<<a>> : a \in NameCharacters}
            \cup {<<a, b>> : a \in NameCharacters, b \in NameCharacters}

InitNames ==
    /\ backend \in Backends
    /\ opened = {}
    /\ fts_table = FALSE
    /\ documents = {}
    /\ documents_fts = EmptyBag
    /\ uuid_count = 0
    /\ ret = [op |-> "init"]
    /\ scope = <<>>

Construct ==
    \E name \in Names, use_fts \in BOOLEAN :
        LET r == CollectionBase(Store, opened, name, use_fts)
        IN  /\ Cardinality(opened) < MaxHandles
            /\ opened' = r.opened
            /\ fts_table' = r.fts_table
            /\ ret' = [op |-> "Collection", name |-> name, exc |-> r.exc]
            /\ UNCHANGED <<scope, backend, documents, documents_fts, uuid_count>>

CountNamed == \E h \in opened : Count(h)

NextNames == Construct \/ CountNamed

SpecNames == InitNames /\ [][NextNames]_vars

\* C18: constructing a collection succeeds exactly when the name is not
\* empty and each of its characters is an ASCII letter, a digit or one of
\* - _ + ~ # = / ; every other name (empty, or with a space, a quote, a
\* backslash or any other character) fails with ValueError before a table
\* is created or altered.
\* Does not hold: a name with a backslash is accepted.
C18_NameValidated ==
    \A name \in Names, use_fts \in BOOLEAN :
        LET r == CollectionBase(Store, opened, name, use_fts)
            allowed == Lowers \cup Uppers \cup Digits \cup {"-", "_", "+", "~", "#", "=", "/"}
        IN  IF name # <<>> /\ \A i \in DOMAIN name : name[i] \in allowed
            THEN r.exc = "None" /\ \E h \in r.opened : h.name = name /\ h.use_fts = use_fts
            ELSE r.exc = "ValueError" /\ r.opened = opened /\ r.fts_table = fts_table

---------------------------------------------------------------------------
(* QueryParser on query strings of up to three tokens.                     *)

\* at most this many tokens in a query string
MaxTokens == 3

\* the tokens: words, prefix terms, operators in both spellings and letter
\* cases, and a prefix term whose word is an operator word
ParserTokens ==
    {<<"l", "o", "r">>, <<"I", "p", "s", "*">>, <<"a", "n", "d">>, <<"O", "r">>,
     <<"&">>, <<"|">>, <<"o", "r", "*">>}

ParserInputs == UNION {[1..n -> ParserTokens] : n \in 0..MaxTokens}

InitParser == InitStore({})

\* str(QueryParser(q, backend="postgresql"))
ParseServer ==
    \E q \in ParserInputs :
        /\ ret' = [op |-> "QueryParser", backend |-> "postgresql", query |-> q,
                   out |-> QueryParser(q, "postgresql")]
        /\ UNCHANGED <<scope, backend, opened, fts_table, documents, documents_fts, uuid_count>>

\* str(QueryParser(q)), the backend being "sqlite"
ParseEmbedded ==
    \E q \in ParserInputs :
        /\ ret' = [op |-> "QueryParser", backend |-> "sqlite", query |-> q,
                   out |-> QueryParser(q, "sqlite")]
        /\ UNCHANGED <<scope, backend, opened, fts_table, documents, documents_fts, uuid_count>>

NextParser == ParseServer \/ ParseEmbedded

SpecParser == InitParser /\ [][NextParser]_vars

\* the token is an operator of the input: &, |, and, or in any letter case
IsOperatorToken(tok) ==
    \/ tok \in {<<"&">>, <<"|">>}
    \/ Len(tok) = 3 /\ tok[1] \in {"a", "A"} /\ tok[2] \in {"n", "N"} /\ tok[3] \in {"d", "D"}
    \/ Len(tok) = 2 /\ tok[1] \in {"o", "O"} /\ tok[2] \in {"r", "R"}

\* the token is word* for a word of letters, digits and underscores
IsPrefixTerm(tok) ==
    Len(tok) > 1 /\ tok[Len(tok)] = "*" /\ \A i \in 1..(Len(tok) - 1) : tok[i] \in WordChars

\* an & belongs after token i of q: it and the next token are no operators
Gap(q, i) == i < Len(q) /\ ~IsOperatorToken(q[i]) /\ ~IsOperatorToken(q[i + 1])

\* the place of token i of q in the output
PlaceOf(q, i) == i + Cardinality({j \in 1..(i - 1) : Gap(q, j)})

\* the token as the server dialect writes it
Written(tok) ==
    IF IsOperatorToken(tok)
    THEN IF tok = <<"&">> \/ Len(tok) = 3 THEN <<"&">> ELSE <<"|">>
    ELSE IF IsPrefixTerm(tok)
         THEN [i \in 1..(Len(tok) + 1) |->
                IF i < Len(tok) THEN tok[i] ELSE IF i = Len(tok) THEN ":" ELSE "*"]
         ELSE tok

\* the output out is the input q in the server dialect
ServerDialect(q, out) ==
    /\ Len(out) = Len(q) + Cardinality({j \in DOMAIN q : Gap(q, j)})
    /\ \A i \in DOMAIN q :
        /\ out[PlaceOf(q, i)] = Written(q[i])
        /\ Gap(q, i) => out[PlaceOf(q, i) + 1] = <<"&">>
    /\ \A k \in DOMAIN out :
        k < Len(out) => (out[k] \in {<<"&">>, <<"|">>} \/ out[k + 1] \in {<<"&">>, <<"|">>})

\* no prefix term of q is made of an operator word
NoOperatorPrefix(q) ==
    \A i \in DOMAIN q : IsPrefixTerm(q[i]) => ~IsOperatorToken(Take(q[i], Len(q[i]) - 1))

\* C19 as stated: for the server dialect and every input of
\* whitespace-separated tokens, the output of QueryParser is the token
\* sequence in input order in which & is inserted exactly between two
\* adjacent non-operator tokens (never next to an explicit operator, never
\* at the end), every whole-word and/or of any letter case is replaced by
\* & or |, and every term word* becomes word:* ; hence no two search terms
\* are adjacent in the output without an operator between them.
\* Does not hold for the term or* (and*): its word is replaced by the
\* operator sign and the term becomes |* (&*).
C19_ServerDialectAllInputs ==
    (ret.op = "QueryParser" /\ ret.backend = "postgresql") => ServerDialect(ret.query, ret.out)

\* C19, amended: the same for every input in which no term word* has and
\* or or (in any letter case) as its word.
C19_ServerDialect ==
    (ret.op = "QueryParser" /\ ret.backend = "postgresql" /\ NoOperatorPrefix(ret.query))
    => ServerDialect(ret.query, ret.out)

\* the server dialect was written for three tokens, two adjacent words of
\* which one is a prefix term, and an operator word: an & was inserted
C19_Witness ==
    /\ ret.op = "QueryParser" /\ ret.backend = "postgresql"
    /\ NoOperatorPrefix(ret.query)
    /\ Len(ret.query) = 3 /\ Len(ret.out) = 4
    /\ \E i \in DOMAIN ret.query : IsPrefixTerm(ret.query[i]) /\ (Gap(ret.query, i) \/ (i > 1 /\ Gap(ret.query, i - 1)))
    /\ \E i \in DOMAIN ret.query : ret.query[i] \in {<<"a", "n", "d">>, <<"O", "r">>}


---------------------------------------------------------------------------
(* The lexical index under add, update, delete and delete_all through      *)
(* FTS-enabled handles, the ids of a batch pairwise distinct.               *)

IndexedIds == {<<"1">>, <<"0", "1">>, <<"a">>}

IndexedContents == {<<Lorem, Ipsum>>, <<Amet>>}

\* one document, or two under two different ids
IndexedBatches ==
    {[contents |-> <<c>>, ids |-> SomeList(<<SomeId(i)>>), metadatas |-> NoneList] :
        c \in IndexedContents, i \in IndexedIds}
    \cup {[contents |-> <<<<Lorem, Ipsum>>, <<Amet>>>>, ids |-> SomeList(<<SomeId(i), SomeId(j)>>),
           metadatas |-> NoneList] :
            i \in {<<"1">>}, j \in IndexedIds \ {<<"1">>}}

IndexedAdds == IndexedBatches \cup {[contents |-> <<<<Amet>>>>, ids |-> NoneList, metadatas |-> NoneList]}

InitIndexed == InitStore({hA, hB})

AddIndexed == \E h \in opened, c \in IndexedAdds : Add(h, c.contents, c.ids, c.metadatas)
UpdateIndexed == \E h \in opened, c \in IndexedBatches : Update(h, c.ids, c.contents, c.metadatas)
DeleteIndexed == \E h \in opened, i \in IndexedIds : Delete(h, <<i>>)
DeleteAllIndexed == \E h \in opened : DeleteAll(h)

NextIndexed == AddIndexed \/ UpdateIndexed \/ DeleteIndexed \/ DeleteAllIndexed

SpecIndexed == InitIndexed /\ [][NextIndexed]_vars

\* the document row has exactly one index entry, made from its content
HasItsIndexEntry(st, d) ==
    IF st.backend = "sqlite"
    THEN /\ [id |-> d.id, content |-> d.content] \in DOMAIN st.documents_fts
         /\ \A f \in IndexOf(st, {d.id}) :
                f.content = d.content /\ st.documents_fts[f] = 1
    ELSE d.tsvector = to_tsvector(d.content)

\* the index entries of the ids outside the set ids are the same in both stores
SameIndexOutside(st, after, ids) ==
    /\ \A f \in DOMAIN st.documents_fts \cup DOMAIN after.documents_fts :
            f.id \notin ids =>
                /\ f \in DOMAIN st.documents_fts
                /\ f \in DOMAIN after.documents_fts
                /\ st.documents_fts[f] = after.documents_fts[f]
    /\ \A d \in st.documents :
            d.id \notin ids => \E e \in after.documents : e.id = d.id /\ e.tsvector = d.tsvector

\* C21: in every state reached by add, update, delete and delete_all calls
\* through FTS-enabled handles (ids of a batch pairwise distinct, any id
\* strings), every document row has exactly one lexical-index entry, made
\* from its current content; an add changes the index entries of the ids of
\* its batch only; and the embedded FTS table has no entry whose id has no
\* document row.
\* Does not hold on SQLite: the id "01" of a batch, taken as an integer in
\* temp_ids, removes the index entry of the document "1".
C21_IndexConsistent ==
    /\ \A d \in documents : HasItsIndexEntry(Store, d)
    /\ \A f \in DOMAIN documents_fts : \E d \in documents : d.id = f.id
    /\ \A h \in opened, c \in IndexedAdds :
        LET r == add(Store, h, uuid_count, c.contents, c.ids, c.metadatas)
        IN  SameIndexOutside(Store, r.store, Range(NormalizedIds(c.contents, c.ids, uuid_count)))

---------------------------------------------------------------------------
(* The embeddings of a collection that has handles with and without an     *)
(* embedding function.                                                     *)

\* the embedding the embedding function gives the content of the row
HasItsEmbedding(d) == d.embedding = _format_vectors(embedding_function(d.content))

\* C24: in every state reached by add and update calls from any handles on
\* the store, every document tagged with a collection name that is opened
\* with an embedding function has a non-null embedding, the encoding of the
\* function's vector for the row's current content; an upsert on an id
\* conflict overwrites the embedding together with the content.
\* Does not hold: an add through a handle of the collection that has no
\* embedding function writes the content and leaves the embedding column
\* as it is, NULL for a new row and that of the earlier content for a row
\* it overwrites.
C24_EmbeddingsCurrent ==
    \A h \in opened :
        h.embedding_function =>
            \A d \in documents : d.name = h.name => ~d.embedding.null /\ HasItsEmbedding(d)

---------------------------------------------------------------------------
(* A batch that has the same id more than once.                            *)

\* the last position of the batch that has the id
LastOccurrence(nids, id) == CHOOSE i \in DOMAIN nids : nids[i] = id /\ \A j \in DOMAIN nids : nids[j] = id => j <= i

\* C25: an add whose batch has the same id more than once succeeds on both
\* backends and leaves exactly one document row for the id, with the content
\* of the last occurrence, and exactly one lexical-index entry, made from
\* that content, so that lexical queries and get() return the document once.
\* Does not hold: SQLite inserts an index entry for every occurrence, and
\* PostgreSQL refuses the statement.
C25_DuplicateIdInBatch ==
    \A h \in opened, c \in AddBatchCalls :
        LET nids == NormalizedIds(c.contents, c.ids, uuid_count)
            r == add(Store, h, uuid_count, c.contents, c.ids, c.metadatas)
        IN  (h.use_fts /\ ~PairwiseDistinct(nids))
            => /\ r.exc = "None"
               /\ \A id \in Range(nids) :
                    LET last == c.contents[LastOccurrence(nids, id)]
                    IN  /\ \E d \in r.store.documents :
                            /\ d.id = id /\ d.content = last
                            /\ HasItsIndexEntry(r.store, d)
                        /\ Cardinality({d \in r.store.documents : d.id = id}) = 1
                        /\ \A o \in get(r.store, h, 0, 0, <<>>, <<>>) :
                            /\ o.exc = "None"
                            /\ Cardinality({i \in DOMAIN o.results : o.results[i].id = id}) = 1
                        /\ \A o \in WordQuery(r.store, h, last[1]) :
                            /\ o.exc = "None"
                            /\ Cardinality({i \in DOMAIN o.results : o.results[i].id = id}) = 1

---------------------------------------------------------------------------
(* get() and count() of a collection.                                      *)

\* C26: for every handle (embedded or server backend, FTS enabled or
\* disabled) and after any sequence of add and delete calls, get() without
\* where, limit and offset returns total == count() and exactly one result
\* for every document row tagged with the collection name, whether or not
\* the document has a lexical-index entry.
\* Does not hold on SQLite: QUERY_GET joins documents_fts, so get() raises
\* when the table does not exist and leaves out the rows added through a
\* handle with FTS disabled.
C26_GetIsCount ==
    \A h \in opened :
        \A o \in get(Store, h, 0, 0, <<>>, <<>>) :
            /\ o.exc = "None"
            /\ o.total = count(Store, h)
            /\ Len(o.results) = count(Store, h)
            /\ ResultIds(o) = {d.id : d \in {x \in documents : x.name = h.name}}

---------------------------------------------------------------------------
(* delete across the collections of a store.                               *)

\* the ids of the rows of the store tagged with the name of h
IdsOf(st, h) == {d.id : d \in {x \in st.documents : x.name = h.name}}

\* C27: delete(ids) through a handle of collection A removes every row whose
\* id is in ids, also the rows tagged with another collection B of the store
\* (B.count() decreases by their number), whereas count, query, get and
\* delete_all of A touch only rows tagged with A; on the embedded backend
\* delete succeeds also through a handle made with FTS disabled.
\* Does not hold on a SQLite store whose handles are all made with FTS
\* disabled: delete raises, the table documents_fts being absent.
C27_DeleteAcrossCollections ==
    \A a \in opened :
        /\ \A ids \in DeleteLists :
            LET r == delete(Store, ids)
            IN  /\ r.exc = "None"
                /\ \A d \in r.store.documents : d.id \notin Range(ids)
                /\ \A b \in opened :
                    count(r.store, b) = count(Store, b) - Cardinality(IdsOf(Store, b) \cap Range(ids))
        /\ count(Store, a) = Cardinality(IdsOf(Store, a))
        /\ \A o \in get(Store, a, 0, 0, <<>>, <<>>) : ResultIds(o) \subseteq IdsOf(Store, a)
        /\ a.use_fts =>
            \A q \in QueryStrings :
                \A o \in TextQuery(Store, a, q) : ResultIds(o) \subseteq IdsOf(Store, a)
        /\ {d \in delete_all(Store, a).store.documents : d.name # a.name}
                = {d \in documents : d.name # a.name}

---------------------------------------------------------------------------
(* A vector search that has no candidate.                                  *)

\* C28: a vector-search query whose candidate set is empty (the collection
\* is empty, or no document satisfies the where) returns total 0 and no
\* result, without raising, on both backends.
\* Does not hold on SQLite: _order_result builds a one-dimensional empty
\* array of the rows and numpy refuses its norm along axis 1.
C28_EmptyVectorSearch ==
    \A h \in opened, c \in VectorCalls :
        (/\ c.vector_search /\ h.embedding_function
         /\ c.order_by = <<>> /\ c.text # <<>>
         /\ VectorRows(Store, h, c.where) = {})
        => \A o \in VectorOutcomes(h, c) :
                o.exc = "None" /\ o.total = 0 /\ o.results = <<>>

---------------------------------------------------------------------------
(* add with lists of different lengths.                                    *)

UnevenContents == {<<<<Lorem>>>>, <<<<Lorem>>, <<Ipsum>>>>}

\* ids=None, [], ["1"], [None], ["1", "2"], ["1", None]
UnevenIds ==
    {NoneList, SomeList(<<>>), SomeList(<<SomeId(<<"1">>)>>), SomeList(<<NoneId>>),
     SomeList(<<SomeId(<<"1">>), SomeId(<<"2">>)>>), SomeList(<<SomeId(<<"1">>), NoneId>>)}

\* metadatas=None, [{"k1": "a"}], [None, {"k1": "a"}]
UnevenMetadatas ==
    {NoneList, SomeList(<<SomeMeta({<<k1, "a">>})>>),
     SomeList(<<NoneMeta, SomeMeta({<<k1, "a">>})>>)}

UnevenAdds == [contents : UnevenContents, ids : UnevenIds, metadatas : UnevenMetadatas]

InitUneven == InitStore({hA})

AddUneven == \E h \in opened, c \in UnevenAdds : Add(h, c.contents, c.ids, c.metadatas)
DeleteUneven == \E h \in opened, i \in {<<"1">>, <<"2">>} : Delete(h, <<i>>)
GetUneven == \E h \in opened : Get(h, 0, 0, <<>>, <<>>)

NextUneven == AddUneven \/ DeleteUneven \/ GetUneven

SpecUneven == InitUneven /\ [][NextUneven]_vars

\* the metadata column of the i-th document of the call
MetadataOf(c, i) ==
    IF c.metadatas.null THEN NullJson
    ELSE IF c.metadatas.list[i].null THEN NullJson ELSE json_dumps(c.metadatas.list[i])

\* C29: for every call add(contents, ids, metadatas) the returned list has
\* exactly len(contents) ids and afterwards contents[i] is stored under the
\* i-th returned id with metadatas[i], for every position i; add never
\* stores fewer document rows or index entries than len(contents), whatever
\* the lengths of ids and metadatas; and every null id is replaced by a
\* fresh id distinct from all other ids of the batch.
\* Does not hold: zip stops at the shortest of the lists, and the list
\* returned is as long as ids.
C29_AddStoresEveryContent ==
    \A h \in opened, c \in UnevenAdds :
        LET r == add(Store, h, uuid_count, c.contents, c.ids, c.metadatas)
            n == Len(c.contents)
        IN  /\ r.exc = "None"
            /\ Len(r.value) = n
            /\ c.metadatas.null \/ Len(c.metadatas.list) >= n
            /\ \A i \in 1..n :
                /\ \E d \in r.store.documents :
                    /\ d.id = r.value[i] /\ d.name = h.name
                    /\ d.content = c.contents[i]
                    /\ d.metadata = MetadataOf(c, i)
                    /\ HasItsIndexEntry(r.store, d)
                /\ (~c.ids.null /\ ~c.ids.list[i].null) => r.value[i] = c.ids.list[i].str
                /\ (c.ids.null \/ c.ids.list[i].null) =>
                    /\ \A j \in 1..n : j # i => r.value[j] # r.value[i]
                    /\ \A d \in documents : d.id # r.value[i]

---------------------------------------------------------------------------
(* The statement query sends: its SQL text and its bound parameters. The   *)
(* text is the sequence of its fragments; a fragment is a constant of the  *)
(* code (sql) with the string interpolated into it (arg, a sequence of     *)
(* characters, empty when the fragment has no interpolation). A where      *)
(* value is a number when its record says so (number |-> TRUE, the value   *)
(* being the digit); the ops of a mapping are taken in one fixed order.    *)

Fragment(sql, arg) == [sql |-> sql, arg |-> arg]

IsNumber(x) == "number" \in DOMAIN x /\ x.number

\* the values written into the text, one fragment for each
literals(be, values) == [i \in DOMAIN values |-> Fragment("", <<values[i]>>)]

\* ",".join("%s" if self.IS_POSTGRES else "?" for _ in values)
placeholders(be, values) ==
    [i \in DOMAIN values |-> Fragment(IF be = "postgresql" THEN "%s" ELSE "?", <<>>)]

Bound(kind, values) == [i \in DOMAIN values |-> [kind |-> kind, value |-> values[i]]]

\* str(int(limit)), the decimal text of a number below ten
str_int(n) == <<DigitChars[n + 1]>>

\* lines 263-286: the comparison operators of a mapping, in a fixed order
ComparisonOps == <<"$gt", "$lt", "$gte", "$lte", "$eq">>

\* the arguments given for the key op of the mapping
ArgsOf(item, op) == (CHOOSE o \in item.ops : o.op = op).args
HasOp(item, op) == \E o \in item.ops : o.op = op

\* lines 279-286 and 289-300: one comparison, a number compared as a number
ComparisonSql(be, item, op, number, value) ==
    <<Fragment(IF number THEN "QUERY_FILTER_META_FLOAT" ELSE "QUERY_FILTER_META", item.key),
      Fragment(op, <<>>)>>
        \o placeholders(be, <<value>>)

RECURSIVE ComparisonsSql(_, _, _)
ComparisonsSql(be, item, i) ==
    IF i > Len(ComparisonOps) THEN [text |-> <<>>, params |-> <<>>]
    ELSE LET op == ComparisonOps[i]
             rest == ComparisonsSql(be, item, i + 1)
         IN  IF HasOp(item, op)
             THEN LET o == CHOOSE x \in item.ops : x.op = op
                  IN  [text |-> ComparisonSql(be, item, op, IsNumber(o), o.args[1]) \o rest.text,
                       params |-> Bound("where", <<o.args[1]>>) \o rest.params]
             ELSE rest

\* lines 229-300 for one item of the where
ItemSql(be, item) ==
    IF ~item.is_dict
    THEN [text |-> ComparisonSql(be, item, "=", IsNumber(item), item.value),
          params |-> Bound("where", <<item.value>>)]
    ELSE LET in == IF HasOp(item, "$in")
                   THEN [text |-> <<Fragment("QUERY_FILTER_META_IN", item.key)>>
                                    \o placeholders(be, ArgsOf(item, "$in")),
                         params |-> Bound("where", ArgsOf(item, "$in"))]
                   ELSE [text |-> <<>>, params |-> <<>>]
             nin == IF HasOp(item, "$nin")
                    THEN [text |-> <<Fragment("QUERY_FILTER_META_NOT_IN", item.key)>>
                                     \o placeholders(be, ArgsOf(item, "$nin")),
                          params |-> Bound("where", ArgsOf(item, "$nin"))]
                    ELSE [text |-> <<>>, params |-> <<>>]
             cmp == ComparisonsSql(be, item, 1)
         IN  [text |-> in.text \o nin.text \o cmp.text,
              params |-> in.params \o nin.params \o cmp.params]

RECURSIVE WhereSql(_, _, _)
WhereSql(be, where, i) ==
    IF i > Len(where) THEN [text |-> <<>>, params |-> <<>>]
    ELSE LET first == ItemSql(be, where[i])
             rest == WhereSql(be, where, i + 1)
         IN  [text |-> first.text \o rest.text, params |-> first.params \o rest.params]

\* lines 302-317
OrderBySql(order_by) ==
    IF order_by = <<>> THEN <<>>
    ELSE <<Fragment(" ORDER BY ", <<>>)>>
            \o [i \in 1..Len(order_by) |->
                    Fragment(IF descending(order_by[i])
                             THEN "QUERY_ORDER_META DESC NULLS FIRST"
                             ELSE "QUERY_ORDER_META ASC NULLS LAST",
                             lstrip(order_by[i]))]

\* lines 200-335: the exception raised before a statement is sent, or the
\* text and the parameters of the statement
statement(be, h, query_string, limit, offset, where, order_by, vector_search) ==
    LET with_text == query_string # <<>>
        head == IF with_text
                THEN IF vector_search
                     THEN [text |-> <<Fragment("QUERY_VECTOR_SEARCH", <<>>)>>,
                           params |-> IF be = "postgresql"
                                      THEN Bound("vector", <<_format_vectors(embedding_function(query_string))>>)
                                      ELSE <<>>]
                     ELSE [text |-> <<Fragment("QUERY_SEARCH", <<>>)>>,
                           params |-> Bound("query", <<QueryParser(query_string, be)>>)]
                ELSE [text |-> <<Fragment("QUERY_GET", <<>>)>>, params |-> <<>>]
        name == <<Fragment(" AND name = '{}'", <<h.name>>)>>
        filter == WhereSql(be, where, 1)
        order == OrderBySql(order_by)
        nearest == IF vector_search /\ be = "postgresql"
                   THEN [text |-> <<Fragment(" ORDER BY embedding <=> %s", <<>>)>>,
                         params |-> Bound("vector", <<_format_vectors(embedding_function(query_string))>>)]
                   ELSE [text |-> <<>>, params |-> <<>>]
        paged == ~(vector_search /\ be = "sqlite")
        lim == IF paged /\ limit # 0
               THEN [text |-> <<Fragment("QUERY_LIMIT", <<>>)>>, params |-> Bound("limit", <<str_int(limit)>>)]
               ELSE [text |-> <<>>, params |-> <<>>]
        off == IF paged /\ offset # 0
               THEN [text |-> <<Fragment("QUERY_OFFSET", <<>>)>>, params |-> Bound("offset", <<str_int(offset)>>)]
               ELSE [text |-> <<>>, params |-> <<>>]
    IN  IF \/ order_by # <<>> /\ vector_search
           \/ vector_search /\ ~h.embedding_function
           \/ with_text /\ ~vector_search /\ ~h.use_fts
           \/ InvalidWhere(where)
        THEN [exc |-> "ValueError", text |-> <<>>, params |-> <<>>]
        ELSE IF vector_search /\ ~with_text /\ be = "postgresql"
        THEN [exc |-> "UnboundLocalError", text |-> <<>>, params |-> <<>>]
        ELSE [exc |-> "None",
              text |-> head.text \o name \o filter.text \o order \o nearest.text \o lim.text \o off.text,
              params |-> head.params \o filter.params \o nearest.params \o lim.params \o off.params]

\* where={"k1": v} and where={"k1": {op: list}}
WhereValue(v) == <<[key |-> k1, is_dict |-> FALSE, value |-> v, ops |-> {}, number |-> FALSE]>>
WhereNumber(n) == <<[key |-> k1, is_dict |-> FALSE, value |-> n, ops |-> {}, number |-> TRUE]>>
WhereOp(op, list) ==
    <<[key |-> k1, is_dict |-> TRUE, value |-> "", ops |-> {[op |-> op, args |-> list]}]>>

StatementWheres ==
    {<<>>, WhereValue("a"), WhereValue("b"), WhereNumber("1"), WhereNumber("2"),
     WhereOp("$in", <<"a">>), WhereOp("$in", <<"b">>), WhereOp("$nin", <<"a", "b">>),
     WhereOp("$gt", <<"a">>), WhereOp("foo", <<"a">>),
     WhereValue("a") \o <<[key |-> k2, is_dict |-> FALSE, value |-> "b", ops |-> {}]>>}

\* the calls: every text, limit and offset with and without vector search;
\* every where with and without an order_by; two texts, limits, offsets and
\* where values together
StatementCalls ==
    [text : {<<>>, <<Lorem>>, <<Amet, Or>>}, limit : Limits, offset : Offsets,
     where : {<<>>}, order_by : {<<>>}, vector_search : BOOLEAN]
    \cup [text : {<<Lorem>>, <<Amet, Or>>}, limit : {0, 1}, offset : {0},
          where : StatementWheres, order_by : {<<>>, <<<<"-">> \o k1>>}, vector_search : {FALSE}]
    \cup [text : {<<Lorem>>, <<Amet, Or>>}, limit : {1, 2}, offset : {1, 2},
          where : {WhereValue("a"), WhereValue("b")}, order_by : {<<>>}, vector_search : {FALSE}]

InitStatement == InitStore({hA, hV})

\* a call of query up to the statement it sends
Prepare ==
    \E h \in opened, c \in StatementCalls :
        LET s == statement(backend, h, c.text, c.limit, c.offset, c.where, c.order_by,
                           c.vector_search)
        IN  /\ ret' = [op |-> "statement", h |-> h, call |-> c, exc |-> s.exc,
                       text |-> s.text, params |-> s.params]
            /\ UNCHANGED <<scope, backend, opened, fts_table, documents, documents_fts, uuid_count>>

NextStatement == Prepare

SpecStatement == InitStatement /\ [][NextStatement]_vars

\* the two lists of values have the same length and values of the same type
SameTypes(a, b, x, y) == Len(x) = Len(y) /\ IsNumber(a) = IsNumber(b)

\* the two items of a where differ in their values only
SameItemShape(a, b) ==
    /\ a.key = b.key /\ a.is_dict = b.is_dict
    /\ IF a.is_dict
       THEN /\ {o.op : o \in a.ops} = {o.op : o \in b.ops}
            /\ \A o \in a.ops, p \in b.ops : o.op = p.op => SameTypes(o, p, o.args, p.args)
       ELSE IsNumber(a) = IsNumber(b)

\* the calls c and d differ at most in the non-empty query text, in where
\* values of the same type (lists of the same length), and in the values of
\* a non-zero limit and a non-zero offset
SameShape(c, d) ==
    /\ (c.text = <<>>) = (d.text = <<>>)
    /\ (c.limit = 0) = (d.limit = 0)
    /\ (c.offset = 0) = (d.offset = 0)
    /\ c.order_by = d.order_by
    /\ c.vector_search = d.vector_search
    /\ Len(c.where) = Len(d.where)
    /\ \A i \in DOMAIN c.where : SameItemShape(c.where[i], d.where[i])

\* the strings a call interpolates: the collection name, the where keys and
\* the order_by fields without their sign
Interpolated(h, c) ==
    {<<>>, <<h.name>>} \cup {c.where[i].key : i \in DOMAIN c.where}
        \cup {lstrip(c.order_by[i]) : i \in DOMAIN c.order_by}

\* C30: the SQL text query sends does not depend on the user-supplied
\* values: two calls on the same handle that differ only in the non-empty
\* query text, in where values of the same type and the same list length,
\* or in the values of a non-zero limit and offset have the same SQL text
\* (and the same number of bound parameters); only the collection name, the
\* where keys and the order_by field names are interpolated into the text.
C30_TextIndependentOfValues ==
    ret.op = "statement" =>
        /\ \A i \in DOMAIN ret.text : ret.text[i].arg \in Interpolated(ret.h, ret.call)
        /\ \A d \in StatementCalls :
            SameShape(ret.call, d) =>
                LET s == statement(backend, ret.h, d.text, d.limit, d.offset, d.where,
                                   d.order_by, d.vector_search)
                IN  /\ s.exc = ret.exc
                    /\ s.text = ret.text
                    /\ Len(s.params) = Len(ret.params)

\* a statement was prepared with a query text, a where value, a limit and
\* an offset, all of them bound, and a call with another text, another
\* value, another limit and another offset has the same SQL text
C30_Witness ==
    /\ ret.op = "statement" /\ ret.exc = "None" /\ ret.call.text # <<>>
    /\ {ret.params[i].kind : i \in DOMAIN ret.params} = {"query", "where", "limit", "offset"}
    /\ \E d \in StatementCalls :
        /\ SameShape(ret.call, d)
        /\ d.text # ret.call.text /\ d.where # ret.call.where
        /\ d.limit # ret.call.limit /\ d.offset # ret.call.offset
        /\ statement(backend, ret.h, d.text, d.limit, d.offset, d.where, d.order_by,
                     d.vector_search).text = ret.text

---------------------------------------------------------------------------
(* The operations statement by statement. Every operation runs inside      *)
(* `with self.conn() as conn` (lines 446-455, 592-601): a connection is    *)
(* opened, the statements run in its transaction, which is committed when  *)
(* the body returns and discarded when it raises, and the connection is    *)
(* closed in both cases. Several callers run their operations at the same  *)
(* time, each on its own connection. SQLite (rollback journal, deferred    *)
(* BEGIN): one writer at a time, a second writer and a commit that meets a *)
(* reader fail with "database is locked" once the busy timeout is over, or *)
(* go on when the other is done. PostgreSQL (READ COMMITTED): a statement  *)
(* sees what is committed when it starts and the writes of its own         *)
(* transaction, and waits for the rows another transaction has written.    *)

\* at most this many callers run operations at the same time
MaxCallers == 2

Callers == 1..MaxCallers

\* the writes of a transaction: SQLite, the tables as the writer has them;
\* PostgreSQL, the ids of the rows written and the rows they have now
NoWork ==
    [active |-> FALSE, writer |-> FALSE, documents |-> {}, documents_fts |-> EmptyBag,
     touched |-> {}]

NoCall == [op |-> "none", h |-> hV, contents |-> <<>>, ids |-> NoneList, text |-> <<>>, fails |-> FALSE]

Idle ==
    [pc |-> "idle", conn |-> FALSE, connections |-> 0, transactions |-> 0, call |-> NoCall,
     at |-> 0, work |-> NoWork, exc |-> "None"]

\* the connection is left open
leak(conn) == conn

\* finally: conn.close()
close(conn) == FALSE

\* the tables a connection sees: what is committed, with the writes of its
\* own transaction; and the tables after its commit
Overlay(st, work) ==
    IF ~work.writer THEN st
    ELSE IF st.backend = "sqlite"
    THEN [st EXCEPT !.documents = work.documents, !.documents_fts = work.documents_fts]
    ELSE [st EXCEPT !.documents = {d \in @ : d.id \notin work.touched} \cup work.documents]

\* every statement is committed as it is executed
autocommit(st, view) == view

\* conn.execute("begin"), and psycopg2's connection, which is not in
\* autocommit mode: the tables the other connections see after a statement
\* that left the view to its transaction
isolated(st, view) == st

\* the statements of the operation, in the order the code executes them
Program(be, c) ==
    CASE c.op \in {"add", "update"} ->
            IF be = "sqlite"
            THEN <<"upsert">> \o (IF c.h.use_fts THEN <<"index">> ELSE <<>>)
                    \o (IF c.h.embedding_function THEN <<"embed">> ELSE <<>>)
            ELSE <<"upsert">>
      [] c.op = "delete" -> <<"delete_index", "delete_doc">>
      [] c.op = "delete_all" ->
            IF be = "sqlite" /\ c.h.use_fts
            THEN <<"delete_all_index", "delete_all_doc">>
            ELSE <<"delete_all_doc">>
      [] c.op = "count" -> <<"count">>
      [] OTHER -> <<"select">>

IsWrite(stmt) == stmt \notin {"count", "select"}

\* the ids and the metadata column add passes to _add
BatchIds(c) == NormalizedIds(c.contents, c.ids, 0)
BatchMetadatas(c) == NormalizedMetadatas(c.contents, NoneList)

\* one statement of the operation on the tables st the connection sees: the
\* exception raised (by the statement, or by the embedding function called
\* before it) and the tables after it
Run(st, c, stmt) ==
    CASE stmt = "upsert" ->
            IF st.backend = "sqlite"
            THEN {[exc |-> "None",
                   store |-> [st EXCEPT !.documents =
                                UpsertAll(@, ZipRows(c.contents, BatchIds(c), BatchMetadatas(c), c.h.name),
                                          1, FALSE, FALSE)]]}
            ELSE IF c.h.embedding_function /\ c.fails
            THEN {[exc |-> "RuntimeError", store |-> st]}
            ELSE {PostgreSQL_add(st, c.h, c.contents, BatchIds(c), BatchMetadatas(c))}
      [] stmt = "index" ->
            {[exc |-> "None",
              store |-> [st EXCEPT !.documents_fts =
                            InsertIndex(DeleteIndexOfBatch(@, BatchIds(c)), c.contents, BatchIds(c), 1)]]}
      [] stmt = "embed" ->
            IF c.fails THEN {[exc |-> "RuntimeError", store |-> st]}
            ELSE {[exc |-> "None",
                   store |-> [st EXCEPT !.documents =
                                UpdateEmbeddings(@, c.contents, BatchIds(c), 1)]]}
      [] stmt = "delete_index" ->
            IF st.backend = "sqlite"
            THEN IF ~st.fts_table THEN {[exc |-> "OperationalError", store |-> st]}
                 ELSE {[exc |-> "None",
                        store |-> [st EXCEPT !.documents_fts =
                                    BagWithout(@, {f \in DOMAIN @ : f.id \in Range(BatchIds(c))})]]}
            ELSE {[exc |-> "None",
                   store |-> [st EXCEPT !.documents =
                                {IF d.id \in Range(BatchIds(c))
                                 THEN [d EXCEPT !.tsvector = NullTsvector] ELSE d : d \in @}]]}
      [] stmt = "delete_doc" ->
            {[exc |-> "None",
              store |-> [st EXCEPT !.documents = {d \in @ : d.id \notin Range(BatchIds(c))}]]}
      [] stmt = "delete_all_index" ->
            {[exc |-> "None",
              store |-> [st EXCEPT !.documents_fts =
                            BagWithout(@, {f \in DOMAIN @ : f.id \in IdsOf(st, c.h)})]]}
      [] stmt = "delete_all_doc" ->
            {[exc |-> "None",
              store |-> [st EXCEPT !.documents = {d \in @ : d.name # c.h.name}]]}
      [] stmt = "count" -> {[exc |-> "None", store |-> st]}
      [] OTHER ->
            {[exc |-> o.exc, store |-> st] :
                o \in query(st, c.h, c.text, 0, 0, <<>>, <<>>, FALSE)}

\* PostgreSQL: the ids of the rows the statement writes
Touches(st, c, stmt) ==
    CASE stmt = "upsert" -> Range(BatchIds(c))
      [] stmt \in {"delete_index", "delete_doc"} ->
            {d.id : d \in st.documents} \cap Range(BatchIds(c))
      [] stmt = "delete_all_doc" -> IdsOf(st, c.h)
      [] OTHER -> {}

\* the writes of the transaction after a statement that left the tables
\* after to the connection
WorkAfter(work, after, ids, write) ==
    IF ~write THEN [work EXCEPT !.active = TRUE]
    ELSE IF after.backend = "sqlite"
    THEN [active |-> TRUE, writer |-> TRUE, documents |-> after.documents,
          documents_fts |-> after.documents_fts, touched |-> {}]
    ELSE [active |-> TRUE, writer |-> TRUE,
          documents |-> {d \in after.documents : d.id \in work.touched \cup ids},
          documents_fts |-> EmptyBag, touched |-> work.touched \cup ids]

\* the calls of the callers, all through the handle with full-text search
\* and an embedding function; fails: the embedding function raises
ScopeWrites ==
    {[op |-> o, h |-> hV, contents |-> <<<<w>>>>, ids |-> SomeList(<<SomeId(<<"1">>)>>),
      text |-> <<>>, fails |-> f] : o \in {"add", "update"}, w \in {Lorem, Amet}, f \in BOOLEAN}
    \cup {[op |-> "add", h |-> hV, contents |-> <<<<Lorem>>, <<Amet>>>>,
           ids |-> SomeList(<<SomeId(<<"1">>), SomeId(<<"2">>)>>), text |-> <<>>, fails |-> FALSE],
          [op |-> "update", h |-> hV, contents |-> <<<<Lorem>>>>, ids |-> NoneList,
           text |-> <<>>, fails |-> FALSE],
          [op |-> "delete", h |-> hV, contents |-> <<>>, ids |-> SomeList(<<SomeId(<<"1">>)>>),
           text |-> <<>>, fails |-> FALSE],
          [op |-> "delete_all", h |-> hV, contents |-> <<>>, ids |-> NoneList,
           text |-> <<>>, fails |-> FALSE]}

ScopeReads ==
    {[op |-> o, h |-> hV, contents |-> <<>>, ids |-> NoneList, text |-> <<>>, fails |-> FALSE] :
        o \in {"count", "get"}}
    \cup {[op |-> "query", h |-> hV, contents |-> <<>>, ids |-> NoneList, text |-> <<Lorem>>,
           fails |-> FALSE]}

ScopeCalls == ScopeWrites \cup ScopeReads

\* update, lines 180-181: the call raises before it opens a connection
Refused(c) ==
    c.op = "update" /\ (c.ids.null \/ \E i \in DOMAIN c.ids.list : c.ids.list[i].null)

\* the caller cannot go on now: SQLite, its write meets another writer or
\* its commit meets a reader; PostgreSQL, its statement writes a row that
\* another transaction has written
Blocked(p) ==
    LET s == scope[p]
        program == Program(backend, s.call)
        others == Callers \ {p}
    IN  IF backend = "sqlite"
        THEN IF s.at <= Len(program)
             THEN IsWrite(program[s.at]) /\ \E q \in others : scope[q].work.writer
             ELSE s.work.writer /\ \E q \in others : scope[q].work.active /\ ~scope[q].work.writer
        ELSE /\ s.at <= Len(program)
             /\ \E q \in others :
                    Touches(Overlay(Store, s.work), s.call, program[s.at])
                        \cap scope[q].work.touched # {}

\* the caller as it returns: its connection closed, its transaction gone
Returned(s, exc) ==
    [s EXCEPT !.pc = "returned", !.conn = close(@), !.work = NoWork, !.exc = exc,
              !.call = NoCall, !.at = 0]

InitScope == create_tables({hV}) /\ scope = [p \in Callers |-> Idle]

\* a caller starts an operation: conn() connects and begins (PostgreSQL
\* begins the transaction with the first statement)
Enter ==
    \E p \in Callers, c \in ScopeCalls :
        /\ scope[p].pc # "running"
        /\ ~Refused(c)
        /\ scope' = [scope EXCEPT ![p] =
                        [pc |-> "running", conn |-> TRUE, connections |-> 1,
                         transactions |-> IF backend = "sqlite" THEN 1 ELSE 0,
                         call |-> c, at |-> 1, work |-> NoWork, exc |-> "None"]]
        /\ UNCHANGED <<backend, opened, fts_table, documents, documents_fts, uuid_count, ret>>

\* a caller starts an operation that raises before it connects
Refuse ==
    \E p \in Callers, c \in ScopeCalls :
        /\ scope[p].pc # "running"
        /\ Refused(c)
        /\ scope' = [scope EXCEPT ![p] = [Idle EXCEPT !.pc = "returned", !.exc = "ValueError"]]
        /\ ret' = [op |-> c.op, h |-> c.h, exc |-> "ValueError"]
        /\ UNCHANGED <<backend, opened, fts_table, documents, documents_fts, uuid_count>>

\* the next statement of a caller succeeds
Execute ==
    \E p \in Callers :
        LET s == scope[p]
            program == Program(backend, s.call)
            view == Overlay(Store, s.work)
        IN  /\ s.pc = "running" /\ s.at <= Len(program) /\ ~Blocked(p)
            /\ \E o \in Run(view, s.call, program[s.at]) :
                /\ o.exc = "None"
                /\ scope' = [scope EXCEPT ![p] =
                                [s EXCEPT !.at = @ + 1, !.transactions = 1,
                                          !.work = WorkAfter(@, o.store,
                                                             Touches(view, s.call, program[s.at]),
                                                             IsWrite(program[s.at]))]]
                /\ documents' = isolated(Store, o.store).documents
                /\ documents_fts' = isolated(Store, o.store).documents_fts
            /\ UNCHANGED <<backend, opened, fts_table, uuid_count, ret>>

\* the next statement of a caller, or the embedding function, raises: the
\* exception leaves conn() without commit
Fail ==
    \E p \in Callers :
        LET s == scope[p]
            program == Program(backend, s.call)
        IN  /\ s.pc = "running" /\ s.at <= Len(program) /\ ~Blocked(p)
            /\ \E o \in Run(Overlay(Store, s.work), s.call, program[s.at]) :
                /\ o.exc # "None"
                /\ scope' = [scope EXCEPT ![p] = Returned(s, o.exc)]
                /\ ret' = [op |-> s.call.op, h |-> s.call.h, exc |-> o.exc]
            /\ UNCHANGED <<backend, opened, fts_table, documents, documents_fts, uuid_count>>

\* SQLite: the busy timeout of a caller that cannot go on is over
Busy ==
    \E p \in Callers :
        /\ backend = "sqlite" /\ scope[p].pc = "running" /\ Blocked(p)
        /\ scope' = [scope EXCEPT ![p] = Returned(scope[p], "OperationalError")]
        /\ ret' = [op |-> scope[p].call.op, h |-> scope[p].call.h, exc |-> "OperationalError"]
        /\ UNCHANGED <<backend, opened, fts_table, documents, documents_fts, uuid_count>>

\* the body of a caller is done: conn.commit(), conn.close(), and the
\* operation returns
Commit ==
    \E p \in Callers :
        LET s == scope[p]
            after == Overlay(Store, s.work)
        IN  /\ s.pc = "running" /\ s.at > Len(Program(backend, s.call)) /\ ~Blocked(p)
            /\ documents' = after.documents
            /\ documents_fts' = after.documents_fts
            /\ scope' = [scope EXCEPT ![p] = Returned(s, "None")]
            /\ ret' = [op |-> s.call.op, h |-> s.call.h, exc |-> "None"]
            /\ UNCHANGED <<backend, opened, fts_table, uuid_count>>

NextScope == Enter \/ Refuse \/ Execute \/ Fail \/ Busy \/ Commit

SpecScope == InitScope /\ [][NextScope]_vars

\* a caller has a connection exactly while its operation runs, one
\* connection and one transaction for the operation, and every statement
\* executed is in that transaction
ScopeDiscipline ==
    \A p \in Callers :
        LET s == scope[p]
        IN  /\ s.conn = (s.pc = "running")
            /\ s.connections <= 1 /\ s.transactions <= 1
            /\ s.pc = "running" => s.connections = 1
            /\ (s.pc = "running" /\ s.at > 1) => s.transactions = 1
            /\ (s.pc = "returned" /\ s.exc = "None") => s.connections = 1 /\ s.transactions = 1

\* a step changes the committed tables only when an operation returns
\* normally, to the tables its connection saw; a step in which an operation
\* raises, and a step inside an operation, leave them as they are
CommitOrNothing ==
    /\ \A p \in Callers :
        (scope[p].pc = "running" /\ scope'[p].pc = "returned") =>
            IF scope'[p].exc = "None"
            THEN /\ documents' = Overlay(Store, scope[p].work).documents
                 /\ documents_fts' = Overlay(Store, scope[p].work).documents_fts
            ELSE UNCHANGED <<documents, documents_fts>>
    /\ (\A p \in Callers : ~(scope[p].pc = "running" /\ scope'[p].pc = "returned"))
            => UNCHANGED <<documents, documents_fts>>

\* C22: every public operation (add, update, delete, delete_all, count,
\* query, get) executes all its statements inside exactly one transaction
\* on a freshly opened connection; the transaction is committed when the
\* operation returns normally, none of its writes is visible afterwards when
\* the operation raises, and in both cases the connection is closed before
\* control returns, so that a handle holds no open connection between
\* operations. (An operation that raises before it reaches conn(), as
\* update without ids, opens no connection.)
C22_OneScopePerOperation == []ScopeDiscipline /\ [][CommitOrNothing]_vars

\* an add on SQLite has raised in the embedding function, after its
\* statements on documents and documents_fts: the connection of the caller
\* is closed and the tables have no row, no index entry
C22_Witness ==
    /\ backend = "sqlite" /\ ret.op = "add" /\ ret.exc = "RuntimeError"
    /\ documents = {} /\ documents_fts = EmptyBag
    /\ \E p \in Callers :
        scope[p].pc = "returned" /\ scope[p].exc = ret.exc /\ ~scope[p].conn

\* C23: while one handle executes add on a batch, a query, get or count
\* issued through another handle on the store never observes a partially
\* applied batch: it sees every row with its content, its lexical-index
\* entry and its embedding all of the same add (or the state before); and
\* when two handles add the same id concurrently, the final row, index entry
\* and embedding stem from the same one of the two adds. The adds are made
\* through handles with full-text search and an embedding function, which
\* write all three.
C23_ReadersSeeWholeAdds ==
    LET seen == Overlay(Store, NoWork)
    IN  /\ \A d \in seen.documents :
            /\ HasItsIndexEntry(seen, d)
            /\ ~d.embedding.null /\ HasItsEmbedding(d)
        /\ \A f \in DOMAIN seen.documents_fts : \E d \in seen.documents : d.id = f.id
        /\ \A o \in get(seen, hV, 0, 0, <<>>, <<>>) :
            /\ o.exc = "None"
            /\ o.total = count(seen, hV)
            /\ \A k \in DOMAIN o.results :
                \E d \in seen.documents :
                    d.id = o.results[k].id /\ d.content = o.results[k].content

\* a caller has read while the add of another caller had written the row of
\* an id in its transaction, another content than the committed one
C23_Witness ==
    \E p, q \in Callers :
        /\ scope[p].pc = "running" /\ scope[p].call.op = "add" /\ scope[p].work.writer
        /\ \E d \in documents, e \in Overlay(Store, scope[p].work).documents :
                d.id = e.id /\ d.content # e.content
        /\ scope[q].pc = "running" /\ scope[q].call \in ScopeReads /\ scope[q].at = 2

=============================================================================
